---- MODULE Spec2Model ----
(***************************************************************************)
(* Company-website enrichment: the candidate extractor, the resolution     *)
(* pipelines (v6, v7, v8 client pipelines and the v11 server handler) and  *)
(* the batch runner.                                                       *)
(*                                                                         *)
(* A JavaScript string is a sequence of one-character strings, so that     *)
(* the regular expressions and substring tests of the source are modelled  *)
(* by what they do to the characters.                                      *)
(***************************************************************************)
EXTENDS Integers, Sequences, FiniteSets, TLC

\* ------------------------------------------------------------------------
\* Strings
\* ------------------------------------------------------------------------
UpperChars == <<"A","B","C","D","E","F","G","H","I","J","K","L","M","N","O","P","Q","R","S","T","U","V","W","X","Y","Z">>
LowerChars == <<"a","b","c","d","e","f","g","h","i","j","k","l","m","n","o","p","q","r","s","t","u","v","w","x","y","z">>
DigitChars == <<"0","1","2","3","4","5","6","7","8","9">>

Range(s) == {s[i] : i \in 1..Len(s)}

IsUpper(c) == c \in Range(UpperChars)
IsLower(c) == c \in Range(LowerChars)
IsDigit(c) == c \in Range(DigitChars)
IsAlnum(c) == IsUpper(c) \/ IsLower(c) \/ IsDigit(c)
\* \w of a JavaScript regular expression
IsWordChar(c) == IsAlnum(c) \/ c = "_"
\* \s of a JavaScript regular expression (the white space the inputs use)
IsSpace(c) == c \in {" ", "\n", "\t"}

LowerChar(c) ==
  IF IsUpper(c)
    THEN LowerChars[CHOOSE i \in 1..Len(UpperChars) : UpperChars[i] = c]
    ELSE c

\* String.prototype.toLowerCase
ToLowerCase(s) == [i \in 1..Len(s) |-> LowerChar(s[i])]

\* String.prototype.includes
Includes(s, d) ==
  \E i \in 0..(Len(s) - Len(d)) : SubSeq(s, i + 1, i + Len(d)) = d

\* String.prototype.startsWith
StartsWith(s, p) == Len(p) <= Len(s) /\ SubSeq(s, 1, Len(p)) = p

EndsWith(s, p) ==
  Len(p) <= Len(s) /\ SubSeq(s, Len(s) - Len(p) + 1, Len(s)) = p

\* s.slice(i) with a 1-based first index
From(s, i) == SubSeq(s, i, Len(s))

\* The positions of s holding a character of the set cs
Positions(s, cs) == {i \in 1..Len(s) : s[i] \in cs}

SetMin(S) == CHOOSE x \in S : \A y \in S : x <= y
SetMax(S) == CHOOSE x \in S : \A y \in S : x >= y

\* s.split(".") : the dot-separated labels of s, empty labels kept
RECURSIVE SplitOn(_, _)
SplitOn(s, c) ==
  LET cut(ps) ==
        IF ps = {} THEN <<s>>
        ELSE <<SubSeq(s, 1, SetMin(ps) - 1)>> \o SplitOn(From(s, SetMin(ps) + 1), c)
  IN  cut(Positions(s, {c}))

\* parts.join(sep)
RECURSIVE Join(_, _)
Join(parts, sep) ==
  IF Len(parts) = 0 THEN <<>>
  ELSE IF Len(parts) = 1 THEN parts[1]
  ELSE parts[1] \o sep \o Join(Tail(parts), sep)

\* A word boundary \b of a JavaScript regular expression lies between
\* position i and position i+1 of s (i = 0: before the first character).
IsWordAt(s, i) == i >= 1 /\ i <= Len(s) /\ IsWordChar(s[i])
WordBoundary(s, i) == IsWordAt(s, i) # IsWordAt(s, i + 1)

\* The value null of the source
Null == <<"null">>

\* ------------------------------------------------------------------------
\* Constants of the client pipelines
\* ------------------------------------------------------------------------
\* The pipeline variants: v6 (src/unnamed/part_003, second module),
\* v7 (src/src/App.jsx), v8 (src/unnamed/part_004).
Versions == {"v6", "v7", "v8"}

VALID_TLDS ==
  {
  <<"c","o","m">>, <<"n","e","t">>, <<"o","r","g">>, <<"e","d","u">>, <<"g","o","v">>, <<"m","i","l">>, <<"i","n","t">>, <<"b","i","z">>, <<"i","n","f","o">>, <<"p","r","o">>,
  <<"m","o","b","i">>, <<"c","o","o","p">>, <<"a","e","r","o">>, <<"i","o">>, <<"c","o">>, <<"a","i">>, <<"a","p","p">>, <<"d","e","v">>, <<"t","e","c","h">>, <<"d","i","g","i","t","a","l">>,
  <<"m","e","d","i","a">>, <<"a","g","e","n","c","y">>, <<"s","t","u","d","i","o">>, <<"o","n","l","i","n","e">>, <<"s","i","t","e">>, <<"w","e","b">>, <<"b","l","o","g">>, <<"s","h","o","p">>,
  <<"s","t","o","r","e">>, <<"c","l","o","u","d">>, <<"s","o","l","u","t","i","o","n","s">>, <<"s","e","r","v","i","c","e","s">>, <<"g","r","o","u","p">>, <<"g","l","o","b","a","l">>, <<"w","o","r","l","d">>,
  <<"b","i","o">>, <<"h","e","a","l","t","h">>, <<"c","a","r","e">>, <<"l","i","f","e">>, <<"l","i","v","e">>, <<"n","e","w","s">>, <<"p","r","e","s","s">>, <<"t","o","d","a","y">>, <<"n","o","w">>,
  <<"n","e","w">>, <<"o","n","e">>, <<"p","l","u","s">>, <<"h","u","b">>, <<"l","a","b">>, <<"l","a","b","s">>, <<"w","o","r","k","s">>, <<"n","e","t","w","o","r","k">>, <<"s","y","s","t","e","m","s">>,
  <<"c","o","n","s","u","l","t","i","n","g">>, <<"v","e","n","t","u","r","e","s">>, <<"c","a","p","i","t","a","l">>, <<"f","i","n","a","n","c","e">>, <<"b","a","n","k">>, <<"i","n","s","u","r","a","n","c","e">>,
  <<"l","e","g","a","l">>, <<"l","a","w">>, <<"t","a","x">>, <<"e","n","e","r","g","y">>, <<"s","o","l","a","r">>, <<"g","r","e","e","n">>, <<"d","e","s","i","g","n">>, <<"b","u","i","l","d">>,
  <<"c","o","n","s","t","r","u","c","t","i","o","n">>, <<"r","e","a","l">>, <<"e","s","t","a","t","e">>, <<"p","r","o","p","e","r","t","y">>, <<"h","o","m","e","s">>, <<"t","r","a","v","e","l">>, <<"e","v","e","n","t","s">>,
  <<"m","u","s","i","c">>, <<"f","i","l","m">>, <<"t","v">>, <<"r","a","d","i","o">>, <<"g","a","m","e","s">>, <<"p","l","a","y">>, <<"f","u","n">>, <<"s","o","c","i","a","l">>,
  <<"f","o","u","n","d","a","t","i","o","n">>, <<"c","h","a","r","i","t","y">>, <<"n","g","o">>, <<"m","u","s","e","u","m">>, <<"c","h","u","r","c","h">>, <<"s","c","h","o","o","l">>, <<"u","n","i","v","e","r","s","i","t","y">>,
  <<"a","c","a","d","e","m","y">>, <<"u","k">>, <<"u","s">>, <<"e","u">>, <<"a","u">>, <<"c","a">>, <<"d","e">>, <<"f","r">>, <<"e","s">>, <<"i","t">>, <<"n","l">>, <<"b","e">>,
  <<"c","h">>, <<"a","t">>, <<"s","e">>, <<"n","o">>, <<"d","k">>, <<"f","i">>, <<"p","l">>, <<"c","z">>, <<"s","k">>, <<"h","u">>, <<"r","o">>, <<"b","g">>,
  <<"h","r">>, <<"s","i">>, <<"r","s">>, <<"g","r">>, <<"c","y">>, <<"m","t">>, <<"l","u">>, <<"i","s">>, <<"i","e">>, <<"p","t">>, <<"r","u">>, <<"u","a">>,
  <<"t","r">>, <<"i","l">>, <<"s","a">>, <<"a","e">>, <<"q","a">>, <<"k","w">>, <<"b","h">>, <<"e","g">>, <<"m","a">>, <<"t","n">>, <<"k","e">>, <<"n","g">>,
  <<"z","a">>, <<"i","n">>, <<"p","k">>, <<"l","k">>, <<"c","n">>, <<"j","p">>, <<"k","r">>, <<"t","w">>, <<"h","k">>, <<"s","g">>, <<"m","y">>, <<"t","h">>,
  <<"v","n">>, <<"p","h">>, <<"i","d">>, <<"n","z">>, <<"b","r">>, <<"a","r">>, <<"c","l">>, <<"p","e">>, <<"v","e">>, <<"e","c">>, <<"m","x">>, <<"g","t">>,
  <<"c","r">>, <<"p","a">>, <<"c","u">>, <<"d","o">>, <<"p","r">>, <<"u","y">>, <<"p","y">>, <<"b","o">>, <<"s","r">>, <<"t","t">>, <<"j","m">>, <<"b","b">>
  }

\* The v8 list is the v7 list without these six entries.
VALID_TLDS_v8 == VALID_TLDS \ {<<"c","o","o","p">>, <<"a","e","r","o">>, <<"s","r">>, <<"t","t">>, <<"j","m">>, <<"b","b">>}

\* The v7 and the v8 lists hold the same entries.
BLOCKED_DOMAINS ==
  {
  <<"l","i","n","k","e","d","i","n",".","c","o","m">>, <<"f","a","c","e","b","o","o","k",".","c","o","m">>, <<"t","w","i","t","t","e","r",".","c","o","m">>, <<"x",".","c","o","m">>, <<"i","n","s","t","a","g","r","a","m",".","c","o","m">>,
  <<"y","o","u","t","u","b","e",".","c","o","m">>, <<"w","i","k","i","p","e","d","i","a",".","o","r","g">>, <<"b","l","o","o","m","b","e","r","g",".","c","o","m">>, <<"c","r","u","n","c","h","b","a","s","e",".","c","o","m">>,
  <<"g","o","o","g","l","e",".","c","o","m">>, <<"b","i","n","g",".","c","o","m">>, <<"y","a","h","o","o",".","c","o","m">>, <<"g","l","a","s","s","d","o","o","r",".","c","o","m">>, <<"i","n","d","e","e","d",".","c","o","m">>,
  <<"z","o","o","m","i","n","f","o",".","c","o","m">>, <<"d","n","b",".","c","o","m">>, <<"h","o","o","v","e","r","s",".","c","o","m">>, <<"m","a","n","t","a",".","c","o","m">>, <<"y","e","l","p",".","c","o","m">>,
  <<"a","p","p","l","e",".","c","o","m">>, <<"a","m","a","z","o","n",".","c","o","m">>, <<"r","e","u","t","e","r","s",".","c","o","m">>, <<"f","o","r","b","e","s",".","c","o","m">>, <<"f","t",".","c","o","m">>, <<"w","s","j",".","c","o","m">>,
  <<"t","e","c","h","c","r","u","n","c","h",".","c","o","m">>, <<"p","i","t","c","h","b","o","o","k",".","c","o","m">>, <<"o","w","l","e","r",".","c","o","m">>, <<"c","r","a","f","t",".","c","o">>,
  <<"s","i","m","i","l","a","r","s","i","t","e","s",".","c","o","m">>, <<"a","n","g","e","l",".","c","o">>, <<"a","n","g","e","l","l","i","s","t",".","c","o","m">>, <<"p","r","o","d","u","c","t","h","u","n","t",".","c","o","m">>,
  <<"g","2",".","c","o","m">>, <<"c","a","p","t","e","r","r","a",".","c","o","m">>, <<"t","r","u","s","t","p","i","l","o","t",".","c","o","m">>, <<"b","b","b",".","o","r","g">>, <<"y","e","l","l","o","w","p","a","g","e","s",".","c","o","m">>,
  <<"w","h","i","t","e","p","a","g","e","s",".","c","o","m">>, <<"b","u","s","i","n","e","s","s","w","i","r","e",".","c","o","m">>, <<"p","r","n","e","w","s","w","i","r","e",".","c","o","m">>, <<"s","e","c",".","g","o","v">>,
  <<"c","o","m","p","a","n","i","e","s","h","o","u","s","e",".","g","o","v",".","u","k">>, <<"o","p","e","n","c","o","r","p","o","r","a","t","e","s",".","c","o","m">>, <<"b","i","z","a","p","e","d","i","a",".","c","o","m">>,
  <<"c","o","r","p","o","r","a","t","i","o","n","w","i","k","i",".","c","o","m">>, <<"s","i","g","n","a","l","h","i","r","e",".","c","o","m">>, <<"r","o","c","k","e","t","r","e","a","c","h",".","c","o","m">>, <<"a","p","o","l","l","o",".","i","o">>
  }

BLOCKED_DOMAINS_v6 ==
  {
  <<"l","i","n","k","e","d","i","n",".","c","o","m">>, <<"f","a","c","e","b","o","o","k",".","c","o","m">>, <<"t","w","i","t","t","e","r",".","c","o","m">>, <<"x",".","c","o","m">>, <<"i","n","s","t","a","g","r","a","m",".","c","o","m">>,
  <<"y","o","u","t","u","b","e",".","c","o","m">>, <<"w","i","k","i","p","e","d","i","a",".","o","r","g">>, <<"b","l","o","o","m","b","e","r","g",".","c","o","m">>, <<"c","r","u","n","c","h","b","a","s","e",".","c","o","m">>,
  <<"g","o","o","g","l","e",".","c","o","m">>, <<"b","i","n","g",".","c","o","m">>, <<"y","a","h","o","o",".","c","o","m">>, <<"g","l","a","s","s","d","o","o","r",".","c","o","m">>, <<"i","n","d","e","e","d",".","c","o","m">>,
  <<"z","o","o","m","i","n","f","o",".","c","o","m">>, <<"d","n","b",".","c","o","m">>, <<"h","o","o","v","e","r","s",".","c","o","m">>, <<"m","a","n","t","a",".","c","o","m">>, <<"y","e","l","p",".","c","o","m">>,
  <<"a","p","p","l","e",".","c","o","m">>, <<"a","p","p","s",".","a","p","p","l","e",".","c","o","m">>, <<"p","l","a","y",".","g","o","o","g","l","e",".","c","o","m">>, <<"a","m","a","z","o","n",".","c","o","m">>,
  <<"r","e","u","t","e","r","s",".","c","o","m">>, <<"f","o","r","b","e","s",".","c","o","m">>, <<"f","t",".","c","o","m">>, <<"w","s","j",".","c","o","m">>, <<"t","e","c","h","c","r","u","n","c","h",".","c","o","m">>,
  <<"p","i","t","c","h","b","o","o","k",".","c","o","m">>, <<"o","w","l","e","r",".","c","o","m">>, <<"c","r","a","f","t",".","c","o">>, <<"s","i","m","i","l","a","r","s","i","t","e","s",".","c","o","m">>
  }

BlockedList(ver) == IF ver = "v6" THEN BLOCKED_DOMAINS_v6 ELSE BLOCKED_DOMAINS
TldList(ver) == IF ver = "v8" THEN VALID_TLDS_v8 ELSE VALID_TLDS

\* ------------------------------------------------------------------------
\* new URL(raw), for a raw string that starts with http:// or https://
\* (every string the pipelines hand to the URL constructor that parses
\* does).  The result is [ok, scheme, hostname, port]; ok = FALSE stands
\* for the TypeError the constructor throws.  Modelled: the slashes and
\* backslashes skipped after the scheme, the authority ending at the first
\* / \ ? #, the user-info before the last @, the port after the first
\* colon (digits only, a default port dropped), the forbidden host code
\* points, the empty host, and the lower-casing of the host.  Not
\* modelled: percent escapes, non-ASCII hosts, IP literals, port ranges.
\* ------------------------------------------------------------------------
ForbiddenHostChars ==
  {" ", "\t", "\n", "#", "/", ":", "<", ">", "?", "@", "[", "\\", "]", "^",
   "|", "%"}

NoURL == [ok |-> FALSE, scheme |-> <<>>, hostname |-> <<>>, port |-> <<>>]

\* The part of s before the first character of the set cs (all of s when
\* there is none), and the part after that character.
Before(s, cs) ==
  LET cut(ps) == IF ps = {} THEN s ELSE SubSeq(s, 1, SetMin(ps) - 1)
  IN  cut(Positions(s, cs))

After(s, cs) ==
  LET cut(ps) == IF ps = {} THEN <<>> ELSE From(s, SetMin(ps) + 1)
  IN  cut(Positions(s, cs))

\* s from its first character that is not in the set cs
SkipChars(s, cs) ==
  LET cut(ps) == IF ps = {} THEN <<>> ELSE From(s, SetMin(ps))
  IN  cut({i \in 1..Len(s) : s[i] \notin cs})

\* s after its last character of the set cs (all of s when there is none)
AfterLast(s, cs) ==
  LET cut(ps) == IF ps = {} THEN s ELSE From(s, SetMax(ps) + 1)
  IN  cut(Positions(s, cs))

ParseURL(raw) ==
  LET made(scheme, host, port) ==
        IF \/ host = <<>>
           \/ \E i \in 1..Len(host) : host[i] \in ForbiddenHostChars
           \/ \E i \in 1..Len(port) : ~IsDigit(port[i])
          THEN NoURL
          ELSE [ok |-> TRUE, scheme |-> scheme,
                hostname |-> ToLowerCase(host),
                port |-> IF port = (IF scheme = <<"h","t","t","p","s">> THEN <<"4","4","3">> ELSE <<"8","0">>)
                           THEN <<>> ELSE port]
      hostport(scheme, hp) == made(scheme, Before(hp, {":"}), After(hp, {":"}))
      authority(scheme, rest) ==
        hostport(scheme, AfterLast(Before(rest, {"/", "\\", "?", "#"}), {"@"}))
      parse(scheme) ==
        IF scheme = <<>> THEN NoURL
        ELSE authority(scheme,
                       SkipChars(From(raw, Len(scheme) + 4), {"/", "\\"}))
  IN  parse(IF StartsWith(raw, <<"h","t","t","p","s",":","/","/">>) THEN <<"h","t","t","p","s">>
            ELSE IF StartsWith(raw, <<"h","t","t","p",":","/","/">>) THEN <<"h","t","t","p">>
            ELSE <<>>)

\* URL.origin
Origin(u) ==
  u.scheme \o <<":","/","/">> \o u.hostname
    \o (IF u.port = <<>> THEN <<>> ELSE <<":">> \o u.port)

\* ------------------------------------------------------------------------
\* The candidate extractor
\* ------------------------------------------------------------------------
isBlocked(ver, url) ==
  LET test(str) == \E d \in BlockedList(ver) : Includes(str, d)
  IN  test(IF ver = "v6" THEN url ELSE ToLowerCase(url))

isValidTLD(ver, hostname) ==
  LET test(parts, n) ==
        /\ n >= 2
        /\ \/ parts[n] \in TldList(ver)
           \/ Join(SubSeq(parts, n - 1, n), <<".">>) \in TldList(ver)
      split(parts) == test(parts, Len(parts))
  IN  split(SplitOn(ToLowerCase(hostname), "."))

\* The end of the longest run of characters that starts at position i of s
\* and holds no character of the set stop (i - 1 when s[i] is in the set).
RunEnd(s, i, stop) ==
  LET first(bad) == IF bad = {} THEN Len(s) ELSE SetMin(bad) - 1
  IN  first({j \in i..Len(s) : s[j] \in stop})

\* The characters urlRegex stops at: [\s\)\]\,\"\'<>\n]
UrlStops == {" ", "\n", "\t", ")", "]", ",", "\"", "'", "<", ">"}

\* urlRegex at position i: the end of the match of
\* https?:\/\/[^\s\)\]\,\"\'<>\n]+ that starts at i, or 0.
UrlMatchEnd(s, i) ==
  LET run(p, e) == IF p = 0 \/ e < p THEN 0 ELSE e
      body(p) == run(p, RunEnd(s, p, UrlStops))
      head(t) == IF StartsWith(t, <<"h","t","t","p","s",":","/","/">>) THEN i + 8
                 ELSE IF StartsWith(t, <<"h","t","t","p",":","/","/">>) THEN i + 7
                 ELSE 0
  IN  body(head(From(s, i)))

\* text.match(urlRegex) || []
RECURSIVE UrlMatches(_, _)
UrlMatches(s, i) ==
  LET next(e) == IF e > 0 THEN <<SubSeq(s, i, e)>> \o UrlMatches(s, e + 1)
                 ELSE UrlMatches(s, i + 1)
  IN  IF i > Len(s) THEN <<>> ELSE next(UrlMatchEnd(s, i))

\* raw.replace(/[.,;!?:)\]>]+$/, "") in v7 and v8, /[.,;!?]+$/ in v6
TrailChars(ver) ==
  IF ver = "v6" THEN {".", ",", ";", "!", "?"}
  ELSE {".", ",", ";", "!", "?", ":", ")", "]", ">"}

StripTrailing(ver, raw) ==
  LET cut(keep) == IF keep = {} THEN <<>> ELSE SubSeq(raw, 1, SetMax(keep))
  IN  cut({i \in 1..Len(raw) : raw[i] \notin TrailChars(ver)})

\* [a-zA-Z0-9\-]
IsLabelChar(c) == IsAlnum(c) \/ c = "-"

\* The v7/v8 bareRegex
\*   \b(?:www\.)?([a-zA-Z0-9][a-zA-Z0-9\-]{0,61}(?:\.[a-zA-Z0-9\-]+)+)\b
\* matches a span w exactly when w is label(.label)+, with a first label of
\* at most 62 characters that starts with a letter or digit, between two
\* word boundaries ("www." followed by such a span is such a span).
IsBareSpan(w) ==
  LET test(parts) ==
        /\ Len(parts) >= 2
        /\ \A k \in 1..Len(parts) :
              parts[k] # <<>> /\ \A j \in 1..Len(parts[k]) : IsLabelChar(parts[k][j])
        /\ IsAlnum(w[1])
        /\ Len(parts[1]) <= 62
  IN  test(SplitOn(w, "."))

\* Greedy matching backtracks from the longest span to shorter ones, so the
\* match that starts at i ends at the last position that gives a span.
BareMatchEnd(s, i) ==
  LET pick(ends) == IF ends = {} THEN 0 ELSE SetMax(ends)
  IN  IF ~WordBoundary(s, i - 1) THEN 0
      ELSE pick({e \in i..Len(s) :
                   IsBareSpan(SubSeq(s, i, e)) /\ WordBoundary(s, e)})

\* The v6 bareRegex
\*   \b(?:www\.)?([a-zA-Z0-9][a-zA-Z0-9\-]{1,61}\.(?:com|net|...|eu)
\*     (?:\.[a-z]{2})?)\b
BARE_TLDS_v6 ==
  << <<"c","o","m">>, <<"n","e","t">>, <<"o","r","g">>, <<"c","o">>, <<"i","o">>, <<"b","i","z">>, <<"a","u">>, <<"u","k">>, <<"d","e">>, <<"f","r">>, <<"e","s">>,
     <<"b","r">>, <<"m","x">>, <<"c","a">>, <<"n","z">>, <<"s","g">>, <<"j","p">>, <<"i","n">>, <<"e","u">> >>

\* (?:\.[a-z]{2})?\b after a top-level domain that ends at position t:
\* the end with the optional country part when that gives a match, else
\* the end without it, else 0.
BareCountryEnd_v6(s, t) ==
  IF /\ t + 3 <= Len(s)
     /\ s[t + 1] = "."
     /\ IsLower(s[t + 2]) /\ IsLower(s[t + 3])
     /\ WordBoundary(s, t + 3)
    THEN t + 3
    ELSE IF WordBoundary(s, t) THEN t ELSE 0

\* The end of the match of the part after (?:www\.)? that starts at j, or
\* 0: the label is the whole run of label characters up to the dot (at
\* least 2, at most 62 of them), and the alternatives are tried in order.
BareTailEnd_v6(s, j) ==
  LET endOf(k, a) == BareCountryEnd_v6(s, k + 1 + Len(BARE_TLDS_v6[a]))
      first(k, hits) == IF hits = {} THEN 0 ELSE endOf(k, SetMin(hits))
      tlds(k) ==
        IF \/ k < j + 1 \/ k - j + 1 > 62
           \/ k + 1 > Len(s) \/ s[k + 1] # "."
          THEN 0
          ELSE first(k, {a \in 1..Len(BARE_TLDS_v6) :
                           /\ StartsWith(From(s, k + 2), BARE_TLDS_v6[a])
                           /\ endOf(k, a) > 0})
  IN  IF j > Len(s) \/ ~IsAlnum(s[j]) THEN 0
      ELSE tlds(RunEnd(s, j, {c \in Range(s) : ~IsLabelChar(c)}))

BareMatchEnd_v6(s, i) ==
  LET pick(withWww) == IF withWww > 0 THEN withWww ELSE BareTailEnd_v6(s, i)
  IN  IF ~WordBoundary(s, i - 1) THEN 0
      ELSE pick(IF StartsWith(From(s, i), <<"w","w","w",".">>)
                  THEN BareTailEnd_v6(s, i + 4) ELSE 0)

\* text.match(bareRegex) || []
RECURSIVE BareMatches(_, _, _)
BareMatches(ver, s, i) ==
  LET next(e) ==
        IF e > 0 THEN <<SubSeq(s, i, e)>> \o BareMatches(ver, s, e + 1)
        ELSE BareMatches(ver, s, i + 1)
  IN  IF i > Len(s) THEN <<>>
      ELSE next(IF ver = "v6" THEN BareMatchEnd_v6(s, i)
                ELSE BareMatchEnd(s, i))

\* A faulty turn of the first loop, for comparison: the match is returned
\* as it stands, with its path and without the check of its domain.
UrlCandidate_unchecked(ver, raw0) == StripTrailing(ver, raw0)

\* One turn of the first loop of extractURL: the value returned for the
\* match raw0, or Null when the loop goes on (continue).
UrlCandidate(ver, raw0) ==
  LET parsed(u) ==
        IF ~u.ok THEN Null
        ELSE IF ver = "v6" THEN Origin(u)
        ELSE IF isValidTLD(ver, u.hostname) THEN Origin(u)
        ELSE Null
      clean(raw) == IF isBlocked(ver, raw) THEN Null ELSE parsed(ParseURL(raw))
  IN  clean(StripTrailing(ver, raw0))

\* One turn of the bare-domain loop of extractURL.
BareCandidate(ver, raw) ==
  LET parsed(full, u) ==
        IF ~u.ok THEN Null
        ELSE IF ver = "v6" THEN full
        ELSE IF isValidTLD(ver, u.hostname) THEN Origin(u)
        ELSE Null
      built(full) == parsed(full, ParseURL(full))
  IN  IF isBlocked(ver, raw) THEN Null
      ELSE built(IF ver = "v6" /\ StartsWith(raw, <<"h","t","t","p">>) THEN raw
                 ELSE <<"h","t","t","p","s",":","/","/">> \o raw)

\* A pick of the last value that is not Null
FirstHit_last(cands) ==
  LET pick(hits) == IF hits = {} THEN Null ELSE cands[SetMax(hits)]
  IN  pick({i \in 1..Len(cands) : cands[i] # Null})

\* The first value of the sequence that is not Null, or Null.
FirstHit(cands) ==
  LET pick(hits) == IF hits = {} THEN Null ELSE cands[SetMin(hits)]
  IN  pick({i \in 1..Len(cands) : cands[i] # Null})

extractURL(ver, text) ==
  LET bare(bs) == FirstHit([k \in 1..Len(bs) |-> BareCandidate(ver, bs[k])])
      both(hit1) == IF hit1 # Null THEN hit1 ELSE bare(BareMatches(ver, text, 1))
      urls(ms) == both(FirstHit([k \in 1..Len(ms) |-> UrlCandidate(ver, ms[k])]))
  IN  IF text = <<>> THEN Null ELSE urls(UrlMatches(text, 1))

\* ------------------------------------------------------------------------
\* Name keywords and the domain-similarity score
\* ------------------------------------------------------------------------
\* s.replace(/[^a-z0-9\s]/g, " ")
PunctToSpace(s) ==
  [i \in 1..Len(s) |->
     IF IsLower(s[i]) \/ IsDigit(s[i]) \/ IsSpace(s[i]) THEN s[i] ELSE " "]

\* s.replace(/[^a-z0-9]/g, "")
RECURSIVE KeepLowerAlnum(_)
KeepLowerAlnum(s) ==
  IF s = <<>> THEN <<>>
  ELSE IF IsLower(s[1]) \/ IsDigit(s[1]) THEN <<s[1]>> \o KeepLowerAlnum(Tail(s))
  ELSE KeepLowerAlnum(Tail(s))

\* The maximal runs of characters other than white space, from position i
RECURSIVE NonSpaceRuns(_, _)
NonSpaceRuns(s, i) ==
  LET take(b, e) == <<SubSeq(s, b, e)>> \o NonSpaceRuns(s, e + 1)
      run(b) == take(b, RunEnd(s, b, {" ", "\n", "\t"}))
      skip(ps) == IF ps = {} THEN <<>> ELSE run(SetMin(ps))
  IN  skip({j \in i..Len(s) : ~IsSpace(s[j])})

\* s.trim().split(/\s+/) : the empty string splits into one empty word
TrimSplit(s) ==
  LET words(runs) == IF runs = <<>> THEN << <<>> >> ELSE runs
  IN  words(NonSpaceRuns(s, 1))

\* xs.filter(keep), keep given as the set of the positions to keep
RECURSIVE FilterSeq(_, _, _)
FilterSeq(xs, keep, i) ==
  IF i > Len(xs) THEN <<>>
  ELSE IF i \in keep THEN <<xs[i]>> \o FilterSeq(xs, keep, i + 1)
  ELSE FilterSeq(xs, keep, i + 1)

\* s.slice(0, n)
Prefix(s, n) == SubSeq(s, 1, IF n < Len(s) THEN n ELSE Len(s))

stopWords ==
  { <<"i","n","c">>, <<"l","l","c">>, <<"l","t","d">>, <<"c","o">>, <<"c","o","r","p">>, <<"g","r","o","u","p">>, <<"m","e","d","i","a">>, <<"s","o","l","u","t","i","o","n","s">>,
    <<"s","e","r","v","i","c","e","s">>, <<"d","i","g","i","t","a","l">>, <<"g","l","o","b","a","l">>, <<"i","n","t","e","r","n","a","t","i","o","n","a","l">>, <<"t","h","e">>, <<"a","n","d">>, <<"o","f">>,
    <<"f","o","r">>, <<"a">>, <<"a","n">>, <<"c","o","m","p","a","n","y">>, <<"t","e","c","h","n","o","l","o","g","i","e","s">>, <<"t","e","c","h","n","o","l","o","g","y">>,
    <<"c","o","n","s","u","l","t","i","n","g">>, <<"p","a","r","t","n","e","r","s">>, <<"a","s","s","o","c","i","a","t","e","s">>, <<"w","o","r","l","d","w","i","d","e">> }

\* nameWords of nameSimilarity
NameWords(companyName) ==
  LET keep(ws) ==
        FilterSeq(ws, {k \in 1..Len(ws) : Len(ws[k]) > 2 /\ ws[k] \notin stopWords}, 1)
  IN  keep(TrimSplit(PunctToSpace(ToLowerCase(companyName))))

\* w is [a-z]{lo,hi}
IsLowerWord(w, lo, hi) ==
  Len(w) >= lo /\ Len(w) <= hi /\ \A j \in 1..Len(w) : IsLower(w[j])

\* t is matched by [a-z]{2,10}(\.[a-z]{2})? as a whole
IsTldTail(t) ==
  LET test(parts) ==
        \/ Len(parts) = 1 /\ IsLowerWord(parts[1], 2, 10)
        \/ Len(parts) = 2 /\ IsLowerWord(parts[1], 2, 10) /\ IsLowerWord(parts[2], 2, 2)
  IN  test(SplitOn(t, "."))

\* s.replace(/\.[a-z]{2,10}(\.[a-z]{2})?$/, "") : the match starts at the
\* first dot that has such a tail up to the end of s.
StripTld(s) ==
  LET cut(ps) == IF ps = {} THEN s ELSE SubSeq(s, 1, SetMin(ps) - 1)
  IN  cut({i \in 1..Len(s) : s[i] = "." /\ IsTldTail(From(s, i + 1))})

\* s.replace(/^https?:\/\/(www\.)?/, "")
StripScheme(s) ==
  LET www(t) == IF StartsWith(t, <<"w","w","w",".">>) THEN From(t, 5) ELSE t
  IN  IF StartsWith(s, <<"h","t","t","p","s",":","/","/">>) THEN www(From(s, 9))
      ELSE IF StartsWith(s, <<"h","t","t","p",":","/","/">>) THEN www(From(s, 8))
      ELSE s

\* domainName of nameSimilarity
DomainName(domainFull) ==
  KeepLowerAlnum(StripTld(Before(StripScheme(domainFull), {"/"})))

\* The end of the tail (?:\.[a-z]{2})?(?:\/|$) after position e of s is
\* found (the regular expression has the flag i).
TldTailFollows(s, e) ==
  LET isLetter(c) == IsLower(LowerChar(c))
      closes(k) == k = Len(s) \/ s[k + 1] = "/"
  IN  \/ closes(e)
      \/ /\ e + 3 <= Len(s)
         /\ s[e + 1] = "." /\ isLetter(s[e + 2]) /\ isLetter(s[e + 3])
         /\ closes(e + 3)

\* domainFull.match(/\.([a-z]{2,10})(?:\.[a-z]{2})?(?:\/|$)/i), group 1
\* in lower case, or "" : the group is the whole run of letters after the
\* dot, since a shorter one would be followed by a letter.
TldWord(s) ==
  LET letters(i) == RunEnd(s, i + 1, {c \in Range(s) : ~IsLower(LowerChar(c))})
      first(ps) ==
        IF ps = {} THEN <<>>
        ELSE ToLowerCase(SubSeq(s, SetMin(ps) + 1, letters(SetMin(ps))))
  IN  first({i \in 1..Len(s) :
               /\ s[i] = "."
               /\ letters(i) - i >= 2 /\ letters(i) - i <= 10
               /\ TldTailFollows(s, letters(i))})

\* What one word adds to the score, in tenths.
WordAward_noDomainPrefix(word, domainName, tldWord) ==
  IF Includes(domainName \o tldWord, word) THEN 10
  ELSE IF /\ tldWord # <<>>
          /\ \/ StartsWith(word, tldWord)
             \/ StartsWith(tldWord, Prefix(word, 3))
    THEN 7
  ELSE IF Len(word) >= 4 /\ Includes(domainName \o tldWord, Prefix(word, 4)) THEN 4
  ELSE 0

WordAward(word, domainName, tldWord) ==
  IF Includes(domainName \o tldWord, word) THEN 10
  ELSE IF Includes(domainName, word) THEN 10
  ELSE IF StartsWith(word, Prefix(domainName, 5)) /\ Len(domainName) >= 4 THEN 8
  ELSE IF /\ tldWord # <<>>
          /\ \/ StartsWith(word, tldWord)
             \/ StartsWith(tldWord, Prefix(word, 3))
    THEN 7
  ELSE IF Len(word) >= 4 /\ Includes(domainName \o tldWord, Prefix(word, 4)) THEN 4
  ELSE 0

RECURSIVE SumSeq(_)
SumSeq(xs) == IF xs = <<>> THEN 0 ELSE xs[1] + SumSeq(Tail(xs))

\* score / nameWords.length is computed in IEEE-754 double precision: the
\* sum of the awards (1, 0.8, 0.7, 0.4, added in the order of the words)
\* divided by their number is at most one unit in the last place away
\* from the double nearest to the exact quotient.  These are the award
\* sequences of up to three words where it is one unit above, and one unit
\* below (for example (0.7 + 0.7 + 1) / 3 = 0.7999999999999999).
RoundedUp ==
  { <<8, 4>>, <<4, 8>>, <<10, 8, 4>>, <<10, 7, 4>>, <<10, 4, 8>>, <<8, 10,
    4>>, <<8, 8, 8>>, <<8, 7, 7>>, <<8, 4, 10>>, <<8, 4, 7>>, <<8, 4, 0>>,
    <<8, 0, 4>>, <<7, 10, 4>>, <<7, 8, 7>>, <<7, 7, 8>>, <<7, 4, 10>>, <<7,
    4, 8>>, <<7, 4, 0>>, <<7, 0, 4>>, <<4, 10, 8>>, <<4, 8, 10>>, <<4, 8,
    7>>, <<4, 8, 0>>, <<4, 7, 10>>, <<4, 7, 8>>, <<4, 7, 0>>, <<4, 4, 4>>,
    <<4, 0, 8>>, <<4, 0, 7>>, <<0, 8, 4>>, <<0, 7, 4>>, <<0, 4, 8>>, <<0, 4,
    7>> }

RoundedDown ==
  { <<10, 10, 8>>, <<10, 10, 4>>, <<10, 8, 10>>, <<10, 7, 7>>, <<10, 4,
    10>>, <<10, 4, 7>>, <<10, 4, 0>>, <<10, 0, 4>>, <<8, 10, 10>>, <<8, 8,
    7>>, <<8, 7, 8>>, <<7, 10, 7>>, <<7, 8, 8>>, <<7, 7, 10>>, <<7, 7, 7>>,
    <<7, 7, 0>>, <<7, 0, 7>>, <<7, 0, 0>>, <<4, 10, 10>>, <<4, 10, 7>>, <<4,
    10, 0>>, <<4, 0, 10>>, <<0, 10, 4>>, <<0, 7, 7>>, <<0, 7, 0>>, <<0, 4,
    10>>, <<0, 0, 7>> }

\* A score is [num, den, ulp]: the double nearest to num / (10 * den),
\* moved by ulp units in the last place.
ScoreOf(awards) ==
  [num |-> SumSeq(awards), den |-> Len(awards),
   ulp |-> IF awards \in RoundedUp THEN 1
           ELSE IF awards \in RoundedDown THEN -1 ELSE 0]

\* a >= tenths / 10, for a literal with one decimal
ScoreAtLeast(a, tenths) ==
  \/ a.num > tenths * a.den
  \/ a.num = tenths * a.den /\ a.ulp >= 0

\* a > b
ScoreGreater(a, b) ==
  \/ a.num * b.den > b.num * a.den
  \/ a.num * b.den = b.num * a.den /\ a.ulp > b.ulp

nameSimilarity(companyName, domainFull) ==
  LET score(words, domainName, tldWord) ==
        IF Len(words) = 0 THEN [num |-> 5, den |-> 1, ulp |-> 0]
        ELSE ScoreOf([k \in 1..Len(words) |->
                        WordAward(words[k], domainName, tldWord)])
  IN  score(NameWords(companyName), DomainName(domainFull), TldWord(domainFull))

getDomainFromURL(url) ==
  LET strip(u) ==
        IF ~u.ok THEN Null
        ELSE IF StartsWith(u.hostname, <<"w","w","w",".">>) THEN From(u.hostname, 5)
        ELSE u.hostname
  IN  strip(ParseURL(url))

\* ------------------------------------------------------------------------
\* The client pipelines v7 and v8: enrichCompany
\* ------------------------------------------------------------------------
NotAvailable == <<"N","o","t"," ","A","v","a","i","l","a","b","l","e">>

\* The end of the first of the alternatives alts (tried in order, letter
\* case ignored) that matches s from position p and ends at a position of
\* the set ends, or 0.
AltEnd(s, p, alts, ends) ==
  LET pick(hits) == IF hits = {} THEN 0 ELSE p + Len(alts[SetMin(hits)]) - 1
  IN  pick({a \in 1..Len(alts) :
              /\ StartsWith(ToLowerCase(From(s, p)), alts[a])
              /\ (p + Len(alts[a]) - 1) \in ends})

\* s.match(/([a-zA-Z0-9\-]+\.(alts))E/i), group 1, or Null, where E is \b
\* or $ and ends holds the positions where E is satisfied: the match
\* starts at the first position from which a run of label characters
\* reaches a dot that one of the alternatives follows.
LabelDotMatch(s, alts, ends) ==
  LET labelEnd(i) == RunEnd(s, i, {c \in Range(s) : ~IsLabelChar(c)})
      tldEnd(i) ==
        IF ~IsLabelChar(s[i]) \/ labelEnd(i) + 1 > Len(s) \/ s[labelEnd(i) + 1] # "."
          THEN 0
          ELSE AltEnd(s, labelEnd(i) + 2, alts, ends)
      first(is) ==
        IF is = {} THEN Null ELSE SubSeq(s, SetMin(is), tldEnd(SetMin(is)))
  IN  first({i \in 1..Len(s) : tldEnd(i) > 0})

\* The alternatives of the Step 4 regular expression, in its order
HINT_TLDS ==
  << <<"c","o","m">>, <<"n","e","t">>, <<"o","r","g">>, <<"c","o",".","u","k">>, <<"i","o">>, <<"b","i","z">>, <<"a","u">>, <<"c","o">>, <<"c","r">>, <<"b","r">>,
     <<"m","x">>, <<"d","e">>, <<"f","r">>, <<"e","s">>, <<"i","t">>, <<"n","l">> >>

\* A guess that keeps the letter case of the name
domainHint_asWritten(name) ==
  LET guess(m) == IF m = Null THEN Null ELSE <<"h","t","t","p","s",":","/","/","w","w","w",".">> \o m
  IN  guess(LabelDotMatch(name, HINT_TLDS,
                          {e \in 1..Len(name) : WordBoundary(name, e)}))

\* Step 4: the URL guessed from a domain in the name, or Null
domainHint(name) ==
  LET guess(m) == IF m = Null THEN Null ELSE <<"h","t","t","p","s",":","/","/","w","w","w",".">> \o ToLowerCase(m)
  IN  guess(LabelDotMatch(name, HINT_TLDS,
                          {e \in 1..Len(name) : WordBoundary(name, e)}))

\* The alternatives of the two regular expressions of extractDomainFromName
NAME_TLDS ==
  << <<"c","o","m">>, <<"n","e","t">>, <<"o","r","g">>, <<"i","o">>, <<"c","o">>, <<"b","i","z">>, <<"a","p","p">>, <<"a","i">>, <<"t","e","c","h">>, <<"m","e","d","i","a">>,
     <<"d","i","g","i","t","a","l">>, <<"s","t","u","d","i","o">>, <<"a","g","e","n","c","y">> >>

END_TLDS ==
  << <<"c","o","m">>, <<"n","e","t">>, <<"o","r","g">>, <<"i","o">>, <<"c","o",".","u","k">>, <<"c","o">>, <<"b","i","z">>, <<"a","p","p">>, <<"a","i">>, <<"c","r">>,
     <<"b","r">>, <<"m","x">>, <<"d","e">>, <<"f","r">>, <<"e","s">>, <<"i","t">>, <<"a","u">> >>

\* name is matched by ^([a-zA-Z0-9][a-zA-Z0-9\-\.]+\.(NAME_TLDS))$ with
\* the flag i
IsDomainName(name) ==
  /\ name # <<>>
  /\ IsAlnum(name[1])
  /\ \A i \in 1..Len(name) : IsLabelChar(name[i]) \/ name[i] = "."
  /\ \E a \in 1..Len(NAME_TLDS) :
        /\ EndsWith(ToLowerCase(name), <<".">> \o NAME_TLDS[a])
        /\ Len(name) >= Len(NAME_TLDS[a]) + 3

\* extractDomainFromName (v8)
extractDomainFromName(name) ==
  LET guess(m) == IF m = Null THEN Null ELSE <<"h","t","t","p","s",":","/","/","w","w","w",".">> \o ToLowerCase(m)
  IN  IF IsDomainName(name) THEN <<"h","t","t","p","s",":","/","/","w","w","w",".">> \o ToLowerCase(name)
      ELSE guess(LabelDotMatch(name, END_TLDS, {Len(name)}))

\* What a call of callWithSearch gives: the text of the answer, or Thrown
\* when the call throws (network failure, timeout, non-OK status, rate
\* limit after the retries).
Thrown == <<"thrown">>

\* searchStep, given the text callWithSearch returned
searchStep(ver, text) ==
  IF text = <<>> \/ Includes(text, <<"N","O","T","F","O","U","N","D">>) THEN Null
  ELSE extractURL(ver, text)

\* The try/catch around a search step: the URL it found, or Null
TrySearchStep(ver, outcome) ==
  IF outcome = Thrown THEN Null ELSE searchStep(ver, outcome)

\* A faulty push, for comparison: the newest result is put in front.
PushResult_front(results, url, step) ==
  IF url = Null THEN results ELSE <<[url |-> url, step |-> step]>> \o results

\* results after a search step that found url (Null: nothing is pushed)
PushResult(results, url, step) ==
  IF url = Null THEN results ELSE Append(results, [url |-> url, step |-> step])

\* No result: the value of a result that is not there
NoResult == [url |-> Null, step |-> "", mark |-> ""]

\* A faulty cross-validation, for comparison: agreement is never seen.
crossValidate_never(results) == NoResult

\* The cross-validation: the result to return, or NoResult.  The entries of
\* the domain counts keep the order in which the domains were first seen,
\* and the sort by count is stable, so the top entry is the first domain
\* seen among those with the highest count.
crossValidate(results) ==
  LET count(ds, k) == Cardinality({j \in 1..Len(ds) : ds[j] = ds[k]})
      match(ds, ks) ==
        IF ks = {} THEN NoResult
        ELSE [url |-> results[SetMin(ks)].url,
              step |-> results[SetMin(ks)].step,
              mark |-> "cross-validated"]
      top(ds, valid) ==
        IF valid = {} THEN NoResult
        ELSE match(ds, {k \in valid :
                          /\ count(ds, k) >= 2
                          /\ \A j \in valid : count(ds, j) <= count(ds, k)})
      counted(ds) == top(ds, {k \in 1..Len(ds) : ds[k] # Null})
  IN  counted([k \in 1..Len(results) |-> getDomainFromURL(results[k].url)])

\* A final decision that gives up although candidates were retained
highestSimilarity_none(name, results) ==
  [url |-> NotAvailable, step |-> "", mark |-> ""]

\* The result with the highest name similarity: the first of them, the
\* sort being stable.
highestSimilarity(name, results) ==
  LET first(ks) == [url |-> results[SetMin(ks)].url,
                    step |-> results[SetMin(ks)].step, mark |-> ""]
      best(scores) ==
        first({k \in 1..Len(results) :
                 \A j \in 1..Len(results) : ~ScoreGreater(scores[j], scores[k])})
  IN  best([k \in 1..Len(results) |-> nameSimilarity(name, results[k].url)])

\* A resolution in progress: the next step, the results collected, the
\* value returned (NoResult before the return), the number of calls of
\* callWithSearch made, how the last search step ended and the text its
\* call returned.
NewRun(ver) ==
  [pc |-> IF ver = "v8" THEN "instant" ELSE "step1",
   results |-> <<>>, out |-> NoResult, calls |-> 0, last |-> "none",
   text |-> <<>>]

Return(st, result) == [st EXCEPT !.pc = "done", !.out = result]

OutcomeKind(outcome, url) ==
  IF outcome = Thrown THEN "thrown" ELSE IF url = Null THEN "nothing" ELSE "url"

\* A search step: the call, and the push of what it found.
Searched(ver, st, outcome, step, next) ==
  LET pushed(url) ==
        [st EXCEPT !.pc = next,
                   !.results = PushResult(st.results, url, step),
                   !.calls = st.calls + 1,
                   !.last = OutcomeKind(outcome, url),
                   !.text = outcome]
  IN  pushed(TrySearchStep(ver, outcome))

\* v8: the instant step, nameDomain being extractDomainFromName(name)
InstantWith(nameDomain, st) ==
  IF nameDomain # Null
    THEN Return(st, [url |-> nameDomain, step |-> "Instant", mark |-> "name is domain"])
    ELSE [st EXCEPT !.pc = "step1"]

\* v8: the name is a domain
Instant(name, st) == InstantWith(extractDomainFromName(name), st)

\* A Step 1 that retains its candidate and never exits
Step1_noExit(ver, name, st, outcome) ==
  Searched(ver, st, outcome, "Step 1", "step2")

\* Step 1 and the early exit on a high similarity
Step1(ver, name, st, outcome) ==
  LET exit(s) ==
        IF /\ Len(s.results) > 0
           /\ ScoreAtLeast(nameSimilarity(name, s.results[1].url), 8)
          THEN Return(s, [url |-> s.results[1].url, step |-> "Step 1",
                          mark |-> "high confidence"])
          ELSE s
  IN  exit(Searched(ver, st, outcome, "Step 1", "step2"))

Step2(ver, st, outcome) == Searched(ver, st, outcome, "Step 2", "step3")

\* Step 3 and the cross-validation after three steps
Step3(ver, st, outcome) ==
  LET decide(s, match) == IF match.url # Null THEN Return(s, match) ELSE s
      cross(s) == decide(s, crossValidate(s.results))
  IN  cross(Searched(ver, st, outcome, "Step 3 (LinkedIn)", "step4"))

\* A Step 4 that prefers the first candidate retained to the hint
Step4With_retained(guessed, st) ==
  IF Len(st.results) > 0
    THEN Return(st, [url |-> st.results[1].url, step |-> "Step 4", mark |-> "domain in name"])
    ELSE [st EXCEPT !.pc = "step5"]

\* Step 4: the domain hint in the name
Step4With(guessed, st) ==
  IF guessed # Null
    THEN Return(st, [url |-> guessed, step |-> "Step 4", mark |-> "domain in name"])
    ELSE [st EXCEPT !.pc = "step5"]

Step4(name, st) == Step4With(domainHint(name), st)

Step5(ver, st, outcome) == Searched(ver, st, outcome, "Step 5 (directory)", "step6")

\* A final decision that takes the candidate retained last
Step6_lastKept(ver, name, st, outcome) ==
  LET final(s) ==
        IF Len(s.results) = 0
          THEN Return(s, [url |-> NotAvailable, mark |-> "",
                          step |-> IF ver = "v7" THEN "All 6 steps exhausted"
                                   ELSE "All steps exhausted"])
          ELSE Return(s, [url |-> s.results[Len(s.results)].url,
                          step |-> s.results[Len(s.results)].step, mark |-> ""])
  IN  final(Searched(ver, st, outcome, "Step 6 (last resort)", "final"))

\* Step 6 and the final decision
Step6(ver, name, st, outcome) ==
  LET decide(s, match) ==
        IF match.url # Null THEN Return(s, match)
        ELSE Return(s, highestSimilarity(name, s.results))
      final(s) ==
        IF Len(s.results) = 0
          THEN Return(s, [url |-> NotAvailable, mark |-> "",
                          step |-> IF ver = "v7" THEN "All 6 steps exhausted"
                                   ELSE "All steps exhausted"])
          ELSE decide(s, crossValidate(s.results))
  IN  final(Searched(ver, st, outcome, "Step 6 (last resort)", "final"))

\* enrichCompany run to its return, outcomes[k] being what the k-th call
\* of callWithSearch gives (a run that returns early leaves the rest
\* unused).
RECURSIVE RunFrom(_, _, _, _)
RunFrom(ver, name, st, outcomes) ==
  IF st.pc = "done" THEN st
  ELSE IF st.pc = "instant" THEN RunFrom(ver, name, Instant(name, st), outcomes)
  ELSE IF st.pc = "step1"
    THEN RunFrom(ver, name, Step1(ver, name, st, outcomes[1]), Tail(outcomes))
  ELSE IF st.pc = "step2"
    THEN RunFrom(ver, name, Step2(ver, st, outcomes[1]), Tail(outcomes))
  ELSE IF st.pc = "step3"
    THEN RunFrom(ver, name, Step3(ver, st, outcomes[1]), Tail(outcomes))
  ELSE IF st.pc = "step4" THEN RunFrom(ver, name, Step4(name, st), outcomes)
  ELSE IF st.pc = "step5"
    THEN RunFrom(ver, name, Step5(ver, st, outcomes[1]), Tail(outcomes))
  ELSE Step6(ver, name, st, outcomes[1])

enrichCompany(ver, name, outcomes) == RunFrom(ver, name, NewRun(ver), outcomes).out


\* ------------------------------------------------------------------------
\* The first-hit pipeline v6: enrichCompany
\* ------------------------------------------------------------------------
\* The alternatives of the Step 4 regular expression of v6, in its order
HINT_TLDS_v6 == << <<"c","o","m">>, <<"n","e","t">>, <<"o","r","g">>, <<"c","o",".","u","k">>, <<"i","o">>, <<"b","i","z">>, <<"a","u">>, <<"c","o">> >>

\* The search steps of v6: the step returned with a URL, the step that
\* follows, and whether the answer is tested for NOTFOUND.
Steps_v6 ==
  [step1 |-> [step |-> "Step 1 (Google)", next |-> "step2", sentinel |-> FALSE],
   step2 |-> [step |-> "Step 2 (Google name)", next |-> "step3", sentinel |-> FALSE],
   step3 |-> [step |-> "Step 3 (LinkedIn)", next |-> "step4", sentinel |-> FALSE],
   step5 |-> [step |-> "Step 5 (directory)", next |-> "step6", sentinel |-> FALSE],
   step6 |-> [step |-> "Step 6 (last resort)", next |-> "done", sentinel |-> TRUE]]

Exhausted_v6 == [url |-> NotAvailable, step |-> "All steps exhausted", mark |-> ""]

SearchStep_v6_uncaught(st, outcome, row) ==
  LET called(last) ==
        [st EXCEPT !.calls = st.calls + 1, !.last = last, !.text = outcome]
      miss(s) == IF row.next = "done" THEN Return(s, Exhausted_v6)
                 ELSE [s EXCEPT !.pc = row.next]
      found(url) ==
        IF url = Null THEN miss(called("nothing"))
        ELSE Return(called("url"), [url |-> url, step |-> row.step, mark |-> ""])
  IN  IF outcome = Thrown THEN Return(called("thrown"), Exhausted_v6)
      ELSE IF row.sentinel /\ Includes(outcome, <<"N","O","T","F","O","U","N","D">>)
        THEN Return(called("nothing"), Exhausted_v6)
      ELSE found(extractURL("v6", outcome))

\* A search step of v6 inside its try/catch: the first URL extracted is
\* returned; after Step 6 "Not Available" is.
SearchStep_v6(st, outcome, row) ==
  LET called(last) ==
        [st EXCEPT !.calls = st.calls + 1, !.last = last, !.text = outcome]
      miss(s) == IF row.next = "done" THEN Return(s, Exhausted_v6)
                 ELSE [s EXCEPT !.pc = row.next]
      found(url) ==
        IF url = Null THEN miss(called("nothing"))
        ELSE Return(called("url"), [url |-> url, step |-> row.step, mark |-> ""])
  IN  IF outcome = Thrown THEN miss(called("thrown"))
      ELSE IF row.sentinel /\ Includes(outcome, <<"N","O","T","F","O","U","N","D">>)
        THEN Return(called("nothing"), Exhausted_v6)
      ELSE found(extractURL("v6", outcome))

\* Step 4 of v6: the domain hint in the name
Step4_v6(name, st) ==
  LET hint(m) ==
        IF m # Null
          THEN Return(st, [url |-> <<"h","t","t","p","s",":","/","/","w","w","w",".">> \o ToLowerCase(m),
                           step |-> "Step 4 (name contains domain)", mark |-> ""])
          ELSE [st EXCEPT !.pc = "step5"]
  IN  hint(LabelDotMatch(name, HINT_TLDS_v6,
                         {e \in 1..Len(name) : WordBoundary(name, e)}))
\* ------------------------------------------------------------------------
\* The search adapter: fetchWithRetry and callWithSearch
\* ------------------------------------------------------------------------
\* A block of the content of a response
Block(type, name, text) == [type |-> type, name |-> name, text |-> text]

\* content.filter(b => b.type === "text").map(b => b.text).join("\n")
RECURSIVE JoinText(_, _)
JoinText(content, first) ==
  IF content = <<>> THEN <<>>
  ELSE IF content[1].type # "text" THEN JoinText(Tail(content), first)
  ELSE (IF first THEN <<>> ELSE <<"\n">>) \o content[1].text
         \o JoinText(Tail(content), FALSE)

\* A second round that is asked for whenever round 1 holds any text
usedSearch_anyText(ver, content) ==
  \E k \in 1..Len(content) : content[k].type = "text"

\* usedSearch of v7 and v8; toolUseBlocks.length > 0 of v6
usedSearch(ver, content) ==
  \E k \in 1..Len(content) :
    /\ content[k].type = "tool_use"
    /\ ver = "v6" \/ content[k].name = "web_search"

\* The bodies posted in round 1 and in round 2
Round1Body(prompt) ==
  [max_tokens |-> 1000,
   messages |-> << [role |-> "user", content |-> prompt] >>]

Round2Body(prompt, content) ==
  [max_tokens |-> 500,
   messages |-> << [role |-> "user", content |-> prompt],
                   [role |-> "assistant", content |-> content] >>]

\* fetchWithRetry of v7: the last attempt, the first wait and the cap
MAX_RETRIES == 5
RETRY_WAIT_MS == 10000
RETRY_CAP_MS == 60000

\* waitMs of fetchWithRetry at attempt k
RECURSIVE RetryWait(_)
RetryWait(k) ==
  IF k = 0 THEN RETRY_WAIT_MS
  ELSE IF 2 * RetryWait(k - 1) < RETRY_CAP_MS THEN 2 * RetryWait(k - 1)
  ELSE RETRY_CAP_MS

\* The pause between round 1 and round 2
ROUND_DELAY_v7 == 3000
ROUND_DELAY_v8 == 1500
RoundDelay(ver) ==
  IF ver = "v7" THEN <<ROUND_DELAY_v7>>
  ELSE IF ver = "v8" THEN <<ROUND_DELAY_v8>>
  ELSE <<>>

\* The cap of a single wait between two attempts
BACKOFF_CAP_MS == 60000

\* ------------------------------------------------------------------------
\* The server pipeline (v11): generateVariations, titleScore, handler
\* ------------------------------------------------------------------------
HARD_STOP ==
  { <<"i","n","c">>, <<"l","l","c">>, <<"l","t","d">>, <<"c","o","r","p">>, <<"p","l","c">>, <<"p","t","y">>, <<"t","h","e">>, <<"a","n","d">>, <<"o","f">>, <<"f","o","r">>,
    <<"a">>, <<"a","n">>, <<"c","o","m","p","a","n","y">>, <<"e","n","t","e","r","p","r","i","s","e","s">>, <<"v","e","n","t","u","r","e","s">>, <<"h","o","l","d","i","n","g","s">>, <<"c","o">> }

TLDS ==
  << <<"c","o","m">>, <<"n","e","t">>, <<"i","o">>, <<"c","o">>, <<"o","r","g">>, <<"a","i">>, <<"a","p","p">>, <<"t","e","c","h">>, <<"b","i","z">>, <<"u","s">>,
     <<"d","i","g","i","t","a","l">>, <<"m","e","d","i","a">> >>

\* The alternatives of dotComMatch
DOTCOM_TLDS == << <<"c","o","m">>, <<"i","o">>, <<"n","e","t">>, <<"o","r","g">>, <<"c","o">>, <<"a","i">>, <<"a","p","p">>, <<"b","i","z">> >>

\* The cap on the number of URLs and on the number of bases used
MAX_URLS == 15
MAX_BASES == 5

\* xs without the elements that occur earlier in it
RECURSIVE Dedupe(_)
Dedupe(xs) ==
  IF xs = <<>> THEN <<>>
  ELSE LET front == SubSeq(xs, 1, Len(xs) - 1)
       IN  IF xs[Len(xs)] \in Range(front) THEN Dedupe(front)
           ELSE Append(Dedupe(front), xs[Len(xs)])

\* The bases of generateVariations: the strings handed to add, in order,
\* of which add keeps those of two characters or more, once each.
Bases(allWords, cleanWords) ==
  LET first(ws) == IF ws = <<>> THEN <<>> ELSE ws[1]
      initials == [k \in 1..Len(cleanWords) |-> cleanWords[k][1]]
      added ==
        << Join(cleanWords, <<>>) >>
        \o (IF Len(cleanWords) >= 2 THEN << Join(SubSeq(cleanWords, 1, 2), <<>>) >> ELSE <<>>)
        \o (IF Len(cleanWords) >= 3 THEN << Join(SubSeq(cleanWords, 1, 3), <<>>) >> ELSE <<>>)
        \o << first(cleanWords) >>
        \o (IF Len(initials) >= 2 /\ Len(initials) <= 5 THEN << initials >> ELSE <<>>)
        \o (IF Len(allWords) >= 2 THEN << Join(SubSeq(allWords, 1, 2), <<>>) >> ELSE <<>>)
        \o << first(allWords) >>
      kept(bs) == FilterSeq(bs, {k \in 1..Len(bs) : Len(bs[k]) >= 2}, 1)
  IN  Dedupe(kept([k \in 1..Len(added) |-> KeepLowerAlnum(added[k])]))

\* The loops without the cap on the number of URLs
VariationUrls_uncapped(bases) ==
  [n \in 1..(Len(Prefix(bases, MAX_BASES)) * Len(TLDS)) |->
     <<"h","t","t","p","s",":","/","/","w","w","w",".">> \o bases[((n - 1) \div Len(TLDS)) + 1]
       \o <<".">> \o TLDS[((n - 1) % Len(TLDS)) + 1]]

\* The two nested loops of generateVariations
VariationUrls(bases) ==
  LET used == Prefix(bases, MAX_BASES)
      all == [n \in 1..(Len(used) * Len(TLDS)) |->
                <<"h","t","t","p","s",":","/","/","w","w","w",".">> \o used[((n - 1) \div Len(TLDS)) + 1]
                  \o <<".">> \o TLDS[((n - 1) % Len(TLDS)) + 1]]
  IN  Prefix(all, MAX_URLS)

\* A different cut, for comparison: five endings for each of three bases
generateVariations_fiveEach(companyName) ==
  LET dotCom(base, tld) ==
        << <<"h","t","t","p","s",":","/","/","w","w","w",".">> \o base \o <<".">> \o tld, <<"h","t","t","p","s",":","/","/">> \o base \o <<".">> \o tld >>
      spread(bases) ==
        [n \in 1..(Len(Prefix(bases, 3)) * 5) |->
           <<"h","t","t","p","s",":","/","/","w","w","w",".">> \o bases[((n - 1) \div 5) + 1] \o <<".">> \o TLDS[((n - 1) % 5) + 1]]
      words(allWords) ==
        spread(
          Bases(allWords,
                FilterSeq(allWords,
                          {k \in 1..Len(allWords) :
                             allWords[k] \notin HARD_STOP /\ Len(allWords[k]) > 1}, 1)))
      match(tlds) ==
        IF tlds # {}
          THEN dotCom(KeepLowerAlnum(ToLowerCase(
                        SubSeq(companyName, 1,
                               Len(companyName) - Len(DOTCOM_TLDS[SetMin(tlds)]) - 1))),
                      DOTCOM_TLDS[SetMin(tlds)])
          ELSE words(NonSpaceRuns(PunctToSpace(ToLowerCase(companyName)), 1))
  IN  match({a \in 1..Len(DOTCOM_TLDS) :
               /\ EndsWith(ToLowerCase(companyName), <<".">> \o DOTCOM_TLDS[a])
               /\ Len(companyName) >= Len(DOTCOM_TLDS[a]) + 2})

generateVariations(companyName) ==
  LET dotCom(base, tld) ==
        << <<"h","t","t","p","s",":","/","/","w","w","w",".">> \o base \o <<".">> \o tld, <<"h","t","t","p","s",":","/","/">> \o base \o <<".">> \o tld >>
      words(allWords) ==
        VariationUrls(
          Bases(allWords,
                FilterSeq(allWords,
                          {k \in 1..Len(allWords) :
                             allWords[k] \notin HARD_STOP /\ Len(allWords[k]) > 1}, 1)))
      match(tlds) ==
        IF tlds # {}
          THEN dotCom(KeepLowerAlnum(ToLowerCase(
                        SubSeq(companyName, 1,
                               Len(companyName) - Len(DOTCOM_TLDS[SetMin(tlds)]) - 1))),
                      DOTCOM_TLDS[SetMin(tlds)])
          ELSE words(NonSpaceRuns(PunctToSpace(ToLowerCase(companyName)), 1))
  IN  match({a \in 1..Len(DOTCOM_TLDS) :
               /\ EndsWith(ToLowerCase(companyName), <<".">> \o DOTCOM_TLDS[a])
               /\ Len(companyName) >= Len(DOTCOM_TLDS[a]) + 2})

\* A title score that counts the stop words and the short words too
titleScore_allWords(companyName, pageTitle) ==
  LET share(words, title) ==
        [num |-> 10 * Cardinality({k \in 1..Len(words) : Includes(title, words[k])}),
         den |-> Len(words), ulp |-> 0]
  IN  IF pageTitle = Null \/ pageTitle = <<>> THEN [num |-> 0, den |-> 1, ulp |-> 0]
      ELSE share(TrimSplit(PunctToSpace(ToLowerCase(companyName))),
                 ToLowerCase(pageTitle))

\* titleScore: the share of the keywords found in the title, as a score
\* (an exact quotient of two small integers is rounded once, so the double
\* is the nearest one); pageTitle is Null when there is none.
titleScore(companyName, pageTitle) ==
  LET zero == [num |-> 0, den |-> 1, ulp |-> 0]
      share(keywords, title) ==
        IF Len(keywords) = 0 THEN zero
        ELSE [num |-> 10 * Cardinality({k \in 1..Len(keywords) :
                                          Includes(title, keywords[k])}),
              den |-> Len(keywords), ulp |-> 0]
      score(words) ==
        share(FilterSeq(words, {k \in 1..Len(words) :
                                  words[k] \notin HARD_STOP /\ Len(words[k]) > 2}, 1),
              ToLowerCase(pageTitle))
  IN  IF pageTitle = Null \/ pageTitle = <<>> THEN zero
      ELSE score(TrimSplit(PunctToSpace(ToLowerCase(companyName))))

\* THRESHOLD, in tenths
THRESHOLD == 5

\* xs.sort((a, b) => b.score - a.score) : a stable sort, highest first
RECURSIVE SortByScore(_)
SortByScore(xs) ==
  IF xs = <<>> THEN <<>>
  ELSE LET top == SetMin({k \in 1..Len(xs) :
                            \A j \in 1..Len(xs) : ~ScoreGreater(xs[j].score, xs[k].score)})
       IN  <<xs[top]>> \o SortByScore(FilterSeq(xs, (1..Len(xs)) \ {top}, 1))

\* What the probes of urls settle to, in the order of urls: the URL and
\* the title fetchTitle gave, Null for a probe that gave none
Settled(urls, titles) ==
  [k \in 1..Len(urls) |->
     [url |-> urls[k],
      title |-> IF urls[k] \in DOMAIN titles /\ titles[urls[k]] # <<>>
                  THEN titles[urls[k]] ELSE Null]]

\* Live results that keep the probes that gave nothing, with score 0
LiveResults_zeroScore(companyName, urls, titles) ==
  SortByScore([k \in 1..Len(urls) |->
                 [url |-> urls[k], title |-> Settled(urls, titles)[k].title,
                  score |-> titleScore(companyName, Settled(urls, titles)[k].title)]])

\* The probes of the URLs urls, titles[u] being what fetchTitle gives for
\* u (Null: not live): the live results, sorted.
LiveResults(companyName, urls, titles) ==
  LET live(us) ==
        SortByScore([k \in 1..Len(us) |->
                       [url |-> us[k], title |-> titles[us[k]],
                        score |-> titleScore(companyName, titles[us[k]])]])
  IN  live(FilterSeq(urls, {k \in 1..Len(urls) :
                              /\ urls[k] \in DOMAIN titles
                              /\ titles[urls[k]] # Null /\ titles[urls[k]] # <<>>}, 1))

\* A find that takes the last result at the threshold
StrongMatch_last(live) ==
  LET pick(ks) == IF ks = {} THEN 0 ELSE SetMax(ks)
  IN  pick({k \in 1..Len(live) : ScoreAtLeast(live[k].score, THRESHOLD)})

\* liveResults.find(r => r.score >= THRESHOLD), as a position, or 0
StrongMatch(live) ==
  LET pick(ks) == IF ks = {} THEN 0 ELSE SetMin(ks)
  IN  pick({k \in 1..Len(live) : ScoreAtLeast(live[k].score, THRESHOLD)})

\* googleSearch, given the values of the href attributes of the result
\* page in page order: the origins kept.
googleSearch(hrefs) ==
  LET origin(h) ==
        LET made(u) == IF u.ok THEN Origin(u) ELSE Null
        IN  IF \/ ~(StartsWith(h, <<"h","t","t","p","s",":","/","/">>) \/ StartsWith(h, <<"h","t","t","p",":","/","/">>))
               \/ StartsWith(After(After(h, {"/"}), {"/"}), <<"w","w","w",".","g","o","o","g","l","e">>)
               \/ \E i \in 1..Len(h) : h[i] \in {"&", "\""}
              THEN Null ELSE made(ParseURL(h))
      kept(os) ==
        FilterSeq(os, {k \in 1..Len(os) :
                         /\ os[k] # Null
                         /\ \A w \in { <<"g","o","o","g","l","e",".">>, <<"y","o","u","t","u","b","e",".">>, <<"f","a","c","e","b","o","o","k",".">>, <<"l","i","n","k","e","d","i","n",".">>,
                                       <<"w","i","k","i","p","e","d","i","a",".">>, <<"b","l","o","o","m","b","e","r","g",".">>, <<"c","r","u","n","c","h","b","a","s","e",".">> } :
                               ~Includes(os[k], w)}, 1)
  IN  Prefix(Dedupe(kept([k \in 1..Len(hrefs) |-> origin(hrefs[k])])), 5)

\* text.match(/https?:\/\/[^\s\)\n]+/), the match, or Null
FirstUrl(text) ==
  LET head(i) == IF StartsWith(From(text, i), <<"h","t","t","p","s",":","/","/">>) THEN 8
                 ELSE IF StartsWith(From(text, i), <<"h","t","t","p",":","/","/">>) THEN 7 ELSE 0
      first(is) ==
        IF is = {} THEN Null
        ELSE SubSeq(text, SetMin(is),
                    RunEnd(text, SetMin(is) + head(SetMin(is)),
                           {" ", "\n", "\t", ")"}))
  IN  first({i \in 1..Len(text) :
               /\ head(i) > 0
               /\ i + head(i) <= Len(text)
               /\ text[i + head(i)] \notin {" ", "\n", "\t", ")"}})

\* ------------------------------------------------------------------------
\* The batch runner: runBatch of v7 (App.jsx) and of the v11 client
\* ------------------------------------------------------------------------
CONCURRENCY_v7 == 1
CONCURRENCY_v11 == 3

CONCURRENCY(ver) == IF ver = "v11" THEN CONCURRENCY_v11 ELSE CONCURRENCY_v7

\* A company as parseCSV returns it (searchStep is the field method of v11)
Company(name, id) ==
  [name |-> name, id |-> id, status |-> "pending", website |-> <<>>, searchStep |-> ""]

\* text.replace(/\r/g, "")
DropCR(text) == SelectSeq(text, LAMBDA c : c # "\r")

\* The columns of a line: a quote toggles inQuote, a comma outside quotes
\* ends the column, any other character is added to it.
RECURSIVE SplitColumns(_, _, _, _, _)
SplitColumns(line, i, cur, inQuote, cols) ==
  IF i > Len(line) THEN Append(cols, cur)
  ELSE IF line[i] = "\"" THEN SplitColumns(line, i + 1, cur, ~inQuote, cols)
  ELSE IF line[i] = "," /\ ~inQuote
    THEN SplitColumns(line, i + 1, <<>>, inQuote, Append(cols, cur))
  ELSE SplitColumns(line, i + 1, Append(cur, line[i]), inQuote, cols)

\* cols[k] || ""
Column(cols, k) == IF k <= Len(cols) THEN cols[k] ELSE <<>>

\* The record of a line: name is the first column, id the third
CsvRecord(line) ==
  LET rec(cols) == Company(Column(cols, 1), Column(cols, 3))
  IN  rec(SplitColumns(line, 1, <<>>, FALSE, <<>>))

\* parseCSV(text): the lines that are not empty, but for the first
parseCSV(text) ==
  LET rows(lines) == [k \in 1..(Len(lines) - 1) |-> CsvRecord(lines[k + 1])]
  IN  rows(SelectSeq(SplitOn(DropCR(text), "\n"), LAMBDA l : l # <<>>))

\* setCompanies(prev => prev.map(c => c.id === id ? { ...c, status } : c))
SetStatusById(cs, id, status) ==
  [k \in 1..Len(cs) |->
     IF cs[k].id = id THEN [cs[k] EXCEPT !.status = status] ELSE cs[k]]

\* The setCompanies of the loop head: v7 sets the status and the step
\* shown, v11 the status only.
SetSearchingById(ver, cs, id) ==
  [k \in 1..Len(cs) |->
     IF cs[k].id # id THEN cs[k]
     ELSE IF ver = "v11" THEN [cs[k] EXCEPT !.status = "searching"]
     ELSE [cs[k] EXCEPT !.status = "searching", !.searchStep = "Starting..."]]

\* The setCompanies of updateCompany
SetResultById(cs, id, website, status, step) ==
  [k \in 1..Len(cs) |->
     IF cs[k].id = id
       THEN [cs[k] EXCEPT !.status = status, !.website = website, !.searchStep = step]
     ELSE cs[k]]

\* The setStats of updateCompany
CountResult(st, status) ==
  [found |-> IF status = "found" THEN st.found + 1 ELSE st.found,
   notAvailable |-> IF status = "notAvailable" THEN st.notAvailable + 1
                    ELSE st.notAvailable]

\* The status updateCompany is given for the URL of a result
StatusOf(url) == IF url = NotAvailable THEN "notAvailable" ELSE "found"

\* The positions of cs whose company has the status, in order
WithStatus(cs, status) ==
  FilterSeq([k \in 1..Len(cs) |-> k], {k \in 1..Len(cs) : cs[k].status = status}, 1)

\* A batch: pc is "free" (no batch), "timer" (runBatch is scheduled by
\* setTimeout) or "running"; targets holds the positions in companies of
\* the records handed to runBatch; idx is the shared index; workers[w] is
\* "busy" resolving targets[cur], in a "delay", or "exited".  stopSeen
\* records that Stop was clicked while the batch ran.
FreeBatch ==
  [pc |-> "free", targets |-> <<>>, idx |-> 0, workers |-> <<>>, stopSeen |-> FALSE]

\* The head of the loop of processNext for worker w: the next target is
\* taken, or the worker leaves the loop.
LoopHead(bt, w, stop) ==
  IF bt.idx < Len(bt.targets) /\ ~stop
    THEN [bt EXCEPT !.idx = bt.idx + 1,
                    !.workers[w] = [pc |-> "busy", cur |-> bt.idx + 1]]
    ELSE [bt EXCEPT !.workers[w] = [pc |-> "exited", cur |-> 0]]

\* Promise.all over the workers: each runs up to its first await.
RECURSIVE StartWorkers(_, _, _)
StartWorkers(bt, w, n) ==
  IF w > n THEN bt ELSE StartWorkers(LoopHead(bt, w, FALSE), w + 1, n)

\* runBatch(targets) up to the first await of every worker
NewBatch(ver, targets) ==
  StartWorkers([pc |-> "running", targets |-> targets, idx |-> 0,
                workers |-> [w \in 1..CONCURRENCY(ver) |-> [pc |-> "exited", cur |-> 0]],
                stopSeen |-> FALSE],
               1, CONCURRENCY(ver))

\* The companies after the targets at the positions from..to were taken:
\* each is set to searching, in order.
RECURSIVE MarkPicked(_, _, _, _, _)
MarkPicked(ver, cs, targets, from, to) ==
  IF from > to THEN cs
  ELSE MarkPicked(ver, SetSearchingById(ver, cs, cs[targets[from]].id),
                  targets, from + 1, to)

AllExited(bt) == \A w \in 1..Len(bt.workers) : bt.workers[w].pc = "exited"

\* ------------------------------------------------------------------------
\* State
\* ------------------------------------------------------------------------
VARIABLES
  exVer,     \* extractor run: the pipeline variant whose extractURL is called
  exText,    \* extractor run: the text handed to extractURL
  exPc,      \* extractor run: "call" before the call, "done" after it
  exOut,     \* extractor run: the value extractURL returned
  enVer,     \* resolution: the pipeline variant, "v7" or "v8"
  enName,    \* resolution: company.name
  enPc,      \* resolution: the step enrichCompany is about to run, or "done"
  enResults, \* resolution: results, the URLs found so far with their steps
  enOut,     \* resolution: the value enrichCompany returned
  enCalls,   \* resolution: the number of calls of callWithSearch made
  enLast,    \* resolution: how the last search step ended
  enText,    \* resolution: the text the last call returned (Thrown: it threw)
  hName,     \* handler: req.body.companyName
  hPc,       \* handler: the phase about to run, "done" or "thrown"
  hLive,     \* handler: liveResults
  hGoogle,   \* handler: liveGoogle
  hResults,  \* handler: what the probes of the variations gave, in their order
  hGoogleResults, \* handler: what the probes of the search results gave
  hOut,      \* handler: the response sent
  hAttempt,  \* handler: attempt of the phase 4 loop
  hWaitMs,   \* handler: waitMs of the phase 4 loop
  hWaited,   \* handler: the waits made by the phase 4 loop, in ms
  hResp,     \* handler: the last response received by the phase 4 loop
  hCalls,    \* handler: calls made to the search page and to the model
  bVer,      \* batch: the client, "v7" or "v11"
  companies, \* batch: the state companies, records [name, id, status, website, searchStep]
  stats,     \* batch: the state stats, the counters found and notAvailable
  running,   \* batch: the state running
  done,      \* batch: the state done
  stopRef,   \* batch: stopRef.current
  batches,   \* batch: the calls of runBatch scheduled or under way
  bLast,     \* batch: the batch the last step completed
  bOutage,   \* batch: every call made to the service so far has failed
  cVer,      \* call: the client whose callWithSearch runs
  cPrompt,   \* call: the prompt callWithSearch was given
  cPc,       \* call: the round awaited, "done" or "thrown"
  cSent,     \* call: the bodies posted so far, in order
  cAttempt,  \* call: attempt of fetchWithRetry (v7)
  cWaited,   \* call: the waits made between attempts and rounds, in ms
  cData1,    \* call: data1.content, <<>> before round 1 returned
  cGot1,     \* call: round 1 has returned with its content
  cOut,      \* call: the text returned
  fPc,       \* calls in flight: "issue" before a call, "await" during it, "joined" after the probes
  fPending,  \* calls in flight: the calls and probes issued and not settled yet
  fTitles,   \* calls in flight: what each probe of phase 1 settled to so far
  sName,     \* similarity: companyName handed to nameSimilarity
  sDomain,   \* similarity: domainFull handed to nameSimilarity
  sPc,       \* similarity: "call" before the call, "done" after it
  sOut,      \* similarity: the score returned
  rPc,       \* round: "posted" (the proxy holds the request), "answered", "done"
  rAttempt,  \* round: attempt of fetchWithRetry
  rWaitMs,   \* round: waitMs of fetchWithRetry
  rProxyAttempt, \* round: attempt of the proxy handler
  rProxyWaitMs,  \* round: waitMs of the proxy handler
  rStatus,   \* round: status of the last response of the proxy
  rReached,  \* round: requests that reached the external service
  rOut       \* round: how fetchWithRetry ended

exVars == <<exVer, exText, exPc, exOut>>
enVars == <<enVer, enName, enPc, enResults, enOut, enCalls, enLast, enText>>
hVars ==
  <<hName, hPc, hLive, hGoogle, hResults, hGoogleResults, hOut, hAttempt, hWaitMs, hWaited, hResp,
    hCalls>>
bVars ==
  <<bVer, companies, stats, running, done, stopRef, batches, bLast, bOutage>>
cVars == <<cVer, cPrompt, cPc, cSent, cAttempt, cWaited, cData1, cGot1, cOut>>
fVars == <<fPc, fPending, fTitles>>
sVars == <<sName, sDomain, sPc, sOut>>
rVars ==
  <<rPc, rAttempt, rWaitMs, rProxyAttempt, rProxyWaitMs, rStatus, rReached, rOut>>
vars == <<exVars, enVars, hVars, bVars, cVars, fVars, sVars, rVars>>

\* No extractor run and no resolution is going on.
ExtractIdle == exVer = "v7" /\ exText = <<>> /\ exPc = "idle" /\ exOut = Null

EnrichIdle ==
  /\ enVer = "v7" /\ enName = <<>> /\ enPc = "idle" /\ enResults = <<>>
  /\ enOut = NoResult /\ enCalls = 0 /\ enLast = "none" /\ enText = <<>>

\* The response of the handler that is not sent yet
NoResponse == [url |-> Null, method |-> ""]

\* No response received by the phase 4 loop yet
NoAnswer == [status |-> -1, text |-> <<>>, json |-> FALSE, retryAfter |-> -1]

HandlerIdle ==
  /\ hName = <<>> /\ hPc = "idle" /\ hLive = <<>> /\ hGoogle = <<>>
  /\ hResults = <<>> /\ hGoogleResults = <<>>
  /\ hOut = NoResponse /\ hAttempt = 0 /\ hWaitMs = 0 /\ hWaited = <<>>
  /\ hResp = NoAnswer
  /\ hCalls = 0

\* The calls of runBatch that may be scheduled or under way together
MaxBatches == 2

\* The cap on the counters of stats
MaxCount == 4

BatchIdle ==
  /\ bVer = "v7" /\ companies = <<>>
  /\ stats = [found |-> 0, notAvailable |-> 0]
  /\ running = FALSE /\ done = FALSE /\ stopRef = FALSE
  /\ batches = [b \in 1..MaxBatches |-> FreeBatch]
  /\ bLast = FreeBatch /\ bOutage = TRUE

\* No call of callWithSearch is going on.
CallIdle ==
  /\ cVer = "v7" /\ cPrompt = <<>> /\ cPc = "idle" /\ cSent = <<>>
  /\ cAttempt = 0 /\ cWaited = <<>> /\ cData1 = <<>> /\ cGot1 = FALSE
  /\ cOut = <<>>

\* No call is followed in flight.
FlightIdle == fPc = "idle" /\ fPending = {} /\ fTitles = <<>>

\* No call of nameSimilarity is followed.
SimIdle ==
  /\ sName = <<>> /\ sDomain = <<>> /\ sPc = "idle"
  /\ sOut = [num |-> 0, den |-> 1, ulp |-> 0]

\* No call of fetchWithRetry is followed.
RoundIdle ==
  /\ rPc = "idle" /\ rAttempt = 0 /\ rWaitMs = 0 /\ rProxyAttempt = 0
  /\ rProxyWaitMs = 0 /\ rStatus = 0 /\ rReached = 0 /\ rOut = "none"

\* ------------------------------------------------------------------------
\* The extractor on bounded texts
\* ------------------------------------------------------------------------
\* The texts are up to MaxPieces of these pieces, separated by a blank.
MaxPieces == 2

Pieces ==
  << <<"h","t","t","p","s",":","/","/","w","w","w",".","a","c","m","e",".","i","o","/","a","b","o","u","t">>,
     <<"h","t","t","p","s",":","/","/","w","w","w",".","Y","e","l","p",".","c","o","m","/","b","i","z","/","a","c","m","e">>,
     <<"h","t","t","p",":","/","/","s","u","b",".","x",".","c","o","m",".">>,
     <<"h","t","t","p","s",":","/","/","a","c","m","e",".","z","z">>,
     <<"a","c","m","e",".","c","o",".","u","k">>,
     <<"B","i","n","g",".","c","o","m">>,
     <<"N","O","T","F","O","U","N","D">>,
     <<"h","t","t","p","s",":","/","/","a","c","m","e",".","i","o","/","?","u","=","x",".","c","o","m">>,
     <<"(","h","t","t","p","s",":","/","/","b","-","c",".","d","e",")",",">>,
     <<"h","t","t","p","s",":","/","/","w","w","w",".","f","e","d","e","x",".","c","o","m">> >>

RECURSIVE PieceSeqs(_)
PieceSeqs(n) ==
  IF n = 0 THEN {<<>>}
  ELSE LET shorter == PieceSeqs(n - 1)
       IN  shorter \cup
           {Append(q, k) : q \in {r \in shorter : Len(r) = n - 1},
                           k \in 1..Len(Pieces)}

TextOf(q) == Join([k \in 1..Len(q) |-> Pieces[q[k]]], <<" ">>)

Texts == {TextOf(q) : q \in PieceSeqs(MaxPieces)}

ExtractInit ==
  /\ exVer \in Versions
  /\ exText \in Texts
  /\ exPc = "call"
  /\ exOut = Null
  /\ EnrichIdle
  /\ HandlerIdle
  /\ BatchIdle
  /\ CallIdle /\ FlightIdle /\ SimIdle /\ RoundIdle

\* extractURL(text) is called and returns.
ExtractCall ==
  /\ exPc = "call"
  /\ exOut' = extractURL(exVer, exText)
  /\ exPc' = "done"
  /\ UNCHANGED <<exVer, exText, enVars, hVars, bVars, cVars, fVars, sVars, rVars>>

ExtractNext == ExtractCall

SpecExtract == ExtractInit /\ [][ExtractNext]_vars

\* ------------------------------------------------------------------------
\* One resolution: enrichCompany of v7 and v8, step by step
\* ------------------------------------------------------------------------
\* The company names
Names ==
  { <<"A","c","m","e"," ","R","o","b","o","t","i","c","s"," ","I","n","c">>, <<"W","i","d","g","e","t"," ","C","o">>, <<"L","i","n","k","e","d","I","n",".","c","o","m">>, <<"f","o","o","_","b","a","r",".","c","o","m">>,
    <<"D","i","g","i","t","a","l"," ","B","i","o","l","o","g","y"," ","I","n","c">>, <<"A","c","m","e",".","i","o"," ","L","a","b","s">> }

\* The texts callWithSearch answers
Answers ==
  { <<"h","t","t","p","s",":","/","/","w","w","w",".","a","c","m","e",".","i","o","/","a","b","o","u","t">>,
    <<"T","h","e"," ","o","f","f","i","c","i","a","l"," ","s","i","t","e"," ","i","s"," ","h","t","t","p",":","/","/","w","i","d","g","e","t","c","o",".","c","o","m",".">>,
    <<"h","t","t","p","s",":","/","/","w","w","w",".","w","i","d","g","e","t","c","o",".","c","o","m">>,
    <<"N","O","T","F","O","U","N","D">>,
    <<>>,
    <<"h","t","t","p","s",":","/","/","w","w","w",".","l","i","n","k","e","d","i","n",".","c","o","m","/","c","o","m","p","a","n","y","/","a","c","m","e">>,
    <<"N","O","T","F","O","U","N","D"," ","(","c","l","o","s","e","s","t",":"," ","h","t","t","p","s",":","/","/","w","w","w",".","a","c","m","e",".","i","o",")">>,
    <<"s","e","e"," ","a","c","m","e",".","z","z">>,
    <<"h","t","t","p","s",":","/","/","d","i","g","i","t",".","b","i","o">> }

Outcomes == Answers \cup {Thrown}

EnrichInit ==
  /\ enVer \in {"v7", "v8"}
  /\ enName \in Names
  /\ enPc = NewRun(enVer).pc
  /\ enResults = <<>>
  /\ enOut = NoResult
  /\ enCalls = 0
  /\ enLast = "none"
  /\ enText = <<>>
  /\ ExtractIdle
  /\ HandlerIdle
  /\ BatchIdle
  /\ CallIdle /\ FlightIdle /\ SimIdle /\ RoundIdle

\* The resolution as a record, and the record written back
EnrichState ==
  [pc |-> enPc, results |-> enResults, out |-> enOut, calls |-> enCalls,
   last |-> enLast, text |-> enText]

EnrichAssign(st) ==
  /\ enPc' = st.pc
  /\ enResults' = st.results
  /\ enOut' = st.out
  /\ enCalls' = st.calls
  /\ enLast' = st.last
  /\ enText' = st.text

EnrichBecomes(st) ==
  /\ EnrichAssign(st)
  /\ UNCHANGED <<enVer, enName, exVars, hVars, bVars, cVars, fVars, sVars, rVars>>

\* extractDomainFromName and the guess of Step 4 for each of the names,
\* computed once
NameDomains == [n \in Names |-> extractDomainFromName(n)]
NameHints == [n \in Names |-> domainHint(n)]

EnInstant ==
  /\ enPc = "instant"
  /\ EnrichBecomes(InstantWith(NameDomains[enName], EnrichState))

EnStep1 ==
  /\ enPc = "step1"
  /\ \E o \in Outcomes : EnrichBecomes(Step1(enVer, enName, EnrichState, o))

EnStep2 ==
  /\ enPc = "step2"
  /\ \E o \in Outcomes : EnrichBecomes(Step2(enVer, EnrichState, o))

EnStep3 ==
  /\ enPc = "step3"
  /\ \E o \in Outcomes : EnrichBecomes(Step3(enVer, EnrichState, o))

EnStep4 ==
  /\ enPc = "step4"
  /\ EnrichBecomes(Step4With(NameHints[enName], EnrichState))

EnStep5 ==
  /\ enPc = "step5"
  /\ \E o \in Outcomes : EnrichBecomes(Step5(enVer, EnrichState, o))

EnStep6 ==
  /\ enPc = "step6"
  /\ \E o \in Outcomes : EnrichBecomes(Step6(enVer, enName, EnrichState, o))

EnrichNext ==
  \/ EnInstant \/ EnStep1 \/ EnStep2 \/ EnStep3 \/ EnStep4 \/ EnStep5 \/ EnStep6

SpecEnrich == EnrichInit /\ [][EnrichNext]_vars


\* ------------------------------------------------------------------------
\* One resolution: enrichCompany of v6, step by step
\* ------------------------------------------------------------------------
EnrichInit_v6 ==
  /\ enVer = "v6"
  /\ enName \in Names
  /\ enPc = "step1"
  /\ enResults = <<>>
  /\ enOut = NoResult
  /\ enCalls = 0
  /\ enLast = "none"
  /\ enText = <<>>
  /\ ExtractIdle
  /\ HandlerIdle
  /\ BatchIdle
  /\ CallIdle /\ FlightIdle /\ SimIdle /\ RoundIdle

EnSearch_v6 ==
  /\ enPc \in DOMAIN Steps_v6
  /\ \E o \in Outcomes : EnrichBecomes(SearchStep_v6(EnrichState, o, Steps_v6[enPc]))

EnStep4_v6 ==
  /\ enPc = "step4"
  /\ EnrichBecomes(Step4_v6(enName, EnrichState))

EnrichNext_v6 == EnSearch_v6 \/ EnStep4_v6

SpecEnrich_v6 == EnrichInit_v6 /\ [][EnrichNext_v6]_vars

\* ------------------------------------------------------------------------
\* One resolution of v7 or v8 under the scheduling the code guarantees
\* ------------------------------------------------------------------------
\* The instant step and Step 4 compute on the name and always go on. A
\* search step awaits fetch, which callWithSearch calls with no signal and
\* no timer: the step ends when the response comes or the fetch rejects,
\* and nothing in the code ends it otherwise. No fairness is stated for
\* the search steps.
SpecEnrichLive == SpecEnrich /\ WF_vars(EnInstant) /\ WF_vars(EnStep4)
\* ------------------------------------------------------------------------
\* One request to the server handler (v11)
\* ------------------------------------------------------------------------
HandlerNames ==
  { <<"A","c","m","e"," ","R","o","b","o","t","i","c","s"," ","I","n","c">>, <<"L","i","n","k","e","d","I","n",".","c","o","m">>, <<"A","l","p","h","a"," ","B","e","t","a"," ","G","a","m","m","a"," ","D","e","l","t","a">>, <<"T","h","e"," ","A","c","m","e">>, <<>> }

\* The sites that may answer a probe, and the titles they may show
Sites ==
  { <<"h","t","t","p","s",":","/","/","w","w","w",".","a","c","m","e","r","o","b","o","t","i","c","s",".","c","o","m">>, <<"h","t","t","p","s",":","/","/","w","w","w",".","a","c","m","e","r","o","b","o","t","i","c","s",".","n","e","t">>,
    <<"h","t","t","p","s",":","/","/","w","w","w",".","l","i","n","k","e","d","i","n",".","c","o","m">>, <<"h","t","t","p","s",":","/","/","w","w","w",".","a","c","m","e","-","r","o","b","o","t","i","c","s",".","d","e">> }

PageTitles == { <<"A","c","m","e"," ","R","o","b","o","t","i","c","s"," ","-"," ","H","o","m","e">>, <<"A","c","m","e"," ","L","a","b","s">>, <<"W","e","l","c","o","m","e">> }

\* What fetchTitle gives for each of the URLs probed: a title, or Null
Probes(urls) == [Sites \cap Range(urls) -> PageTitles \cup {Null}]

\* The result pages of the search: the fetch fails, or the hrefs of the page
GooglePages ==
  { [ok |-> FALSE, hrefs |-> <<>>],
    [ok |-> TRUE, hrefs |-> <<>>],
    [ok |-> TRUE,
     hrefs |-> << <<"h","t","t","p","s",":","/","/","w","w","w",".","a","c","m","e","-","r","o","b","o","t","i","c","s",".","d","e","/","e","n">>,
                  <<"h","t","t","p","s",":","/","/","w","w","w",".","l","i","n","k","e","d","i","n",".","c","o","m","/","c","o","m","p","a","n","y","/","a","c","m","e">>,
                  <<"h","t","t","p","s",":","/","/","w","w","w",".","g","o","o","g","l","e",".","c","o","m","/","m","a","p","s">> >>] }

\* The answers of the model: status 0 stands for a fetch that rejects
\* (network failure, timeout), json FALSE for a body that is not JSON,
\* retryAfter -1 for no retry-after header.
ModelTexts ==
  { <<"N","O","T","_","A","V","A","I","L","A","B","L","E">>, <<"h","t","t","p","s",":","/","/","w","w","w",".","a","c","m","e","-","r","o","b","o","t","i","c","s",".","d","e">>,
    <<"h","t","t","p","s",":","/","/","w","w","w",".","f","a","c","e","b","o","o","k",".","c","o","m","/","a","c","m","e">>, <<"h","t","t","p","s",":","/","/","[">>, <<>> }

RetryAfters == {-1, 2, 30}

Response(status, text, json, retryAfter) ==
  [status |-> status, text |-> text, json |-> json, retryAfter |-> retryAfter]

Responses ==
  {Response(0, <<>>, FALSE, -1), Response(200, <<>>, FALSE, -1),
   Response(500, <<>>, TRUE, -1)}
    \cup {Response(200, t, TRUE, -1) : t \in ModelTexts}
    \cup {Response(429, <<>>, TRUE, r) : r \in RetryAfters}

\* The constants of the phase 4 loop
LAST_ATTEMPT == 3
FIRST_WAIT_MS == 5000
MAX_WAIT_MS == 20000

HandlerInit ==
  /\ hName \in HandlerNames
  /\ hPc = "phase1"
  /\ hLive = <<>> /\ hGoogle = <<>>
  /\ hResults = <<>> /\ hGoogleResults = <<>>
  /\ hOut = NoResponse
  /\ hAttempt = 0 /\ hWaitMs = 0 /\ hWaited = <<>>
  /\ hResp = NoAnswer
  /\ hCalls = 0
  /\ ExtractIdle /\ EnrichIdle /\ BatchIdle /\ CallIdle /\ FlightIdle /\ SimIdle /\ RoundIdle

Respond(url, method) ==
  /\ hPc' = "done"
  /\ hOut' = [url |-> url, method |-> method]

\* The request is received: an empty name is answered 400; else the
\* variations are probed, and a live one at the threshold is returned.
HPhase1 ==
  /\ hPc = "phase1"
  /\ IF hName = <<>>
       THEN /\ Respond(Null, "error 400")
            /\ UNCHANGED <<hLive, hResults>>
       ELSE \E titles \in Probes(generateVariations(hName)) :
              LET decide(live, strong) ==
                    /\ hLive' = live
                    /\ hResults' = Settled(generateVariations(hName), titles)
                    /\ IF strong > 0
                         THEN Respond(live[strong].url, "domain_variation")
                         ELSE hPc' = "phase2" /\ UNCHANGED hOut
                  probed(live) == decide(live, StrongMatch(live))
              IN  probed(LiveResults(hName, generateVariations(hName), titles))
  /\ UNCHANGED <<hName, hGoogle, hGoogleResults, hAttempt, hWaitMs, hWaited, hResp, hCalls>>
  /\ UNCHANGED <<exVars, enVars, bVars, cVars, fVars, sVars, rVars>>

\* Phase 2: the search page, and the probes of the URLs found on it
HPhase2 ==
  /\ hPc = "phase2"
  /\ \E page \in GooglePages :
       LET decide(live, strong) ==
             /\ hGoogle' = live
             /\ IF strong > 0
                  THEN Respond(live[strong].url, "google_search")
                  ELSE hPc' = "phase3" /\ UNCHANGED hOut
           probed(live) == decide(live, StrongMatch(live))
           found(urls) ==
             \E titles \in Probes(urls) :
               /\ hGoogleResults' = Settled(urls, titles)
               /\ probed(LiveResults(hName, urls, titles))
       IN  found(IF page.ok THEN googleSearch(page.hrefs) ELSE <<>>)
  /\ hCalls' = hCalls + 1
  /\ UNCHANGED <<hName, hLive, hResults, hAttempt, hWaitMs, hWaited, hResp>>
  /\ UNCHANGED <<exVars, enVars, bVars, cVars, fVars, sVars, rVars>>

\* The answer of the model, read as both phases read it: the URL to
\* return, Null when the answer gives none, Thrown when new URL throws.
AnswerUrl(text) ==
  LET origin(u) == IF u.ok THEN Origin(u) ELSE Thrown
      parse(m) == IF m = Null THEN Null ELSE origin(ParseURL(m))
  IN  IF text = <<>> \/ Includes(text, <<"N","O","T","_","A","V","A","I","L","A","B","L","E">>) THEN Null
      ELSE parse(FirstUrl(text))

\* The candidates listed in the prompt of phase 3:
\* [...liveResults, ...liveGoogle].sort(by score).slice(0, 5)
Presented(live, google) ==
  LET first(all) == SubSeq(all, 1, IF Len(all) < 5 THEN Len(all) ELSE 5)
  IN  first(SortByScore(live \o google))

\* Phase 3: with candidates, the model is asked to pick one.  Neither the
\* fetch, nor the reading of the body, nor new URL is inside a try.
HPhase3 ==
  /\ hPc = "phase3"
  /\ IF Len(hLive) + Len(hGoogle) = 0
       THEN /\ hPc' = "phase4"
            /\ hWaitMs' = FIRST_WAIT_MS
            /\ UNCHANGED <<hOut, hCalls>>
       ELSE \E r \in Responses :
              /\ hCalls' = hCalls + 1
              /\ hWaitMs' = FIRST_WAIT_MS
              /\ IF r.status = 0 \/ (r.status = 200 /\ ~r.json)
                   THEN hPc' = "thrown" /\ UNCHANGED hOut
                 ELSE IF r.status # 200 \/ AnswerUrl(r.text) = Null
                   THEN hPc' = "phase4" /\ UNCHANGED hOut
                 ELSE IF AnswerUrl(r.text) = Thrown
                   THEN hPc' = "thrown" /\ UNCHANGED hOut
                 ELSE Respond(AnswerUrl(r.text), "claude_judgment")
  /\ UNCHANGED <<hName, hLive, hGoogle, hResults, hGoogleResults, hAttempt, hWaited, hResp>>
  /\ UNCHANGED <<exVars, enVars, bVars, cVars, fVars, sVars, rVars>>

\* One attempt of the phase 4 loop: the model with web search
HPhase4 ==
  /\ hPc = "phase4"
  /\ \E r \in Responses :
       /\ hCalls' = hCalls + 1
       /\ hResp' = r
       /\ IF r.status = 0 \/ (r.status = 200 /\ ~r.json)
            THEN /\ hPc' = "thrown"
                 /\ UNCHANGED <<hOut, hAttempt, hWaitMs, hWaited>>
          ELSE IF r.status = 429 /\ hAttempt < LAST_ATTEMPT
            THEN /\ hWaited' =
                      Append(hWaited,
                             IF (IF r.retryAfter >= 0 THEN r.retryAfter * 1000 ELSE hWaitMs)
                                  < MAX_WAIT_MS
                               THEN (IF r.retryAfter >= 0 THEN r.retryAfter * 1000 ELSE hWaitMs)
                               ELSE MAX_WAIT_MS)
                 /\ hWaitMs' = hWaitMs * 2
                 /\ hAttempt' = hAttempt + 1
                 /\ UNCHANGED <<hPc, hOut>>
          ELSE IF r.status = 200 /\ AnswerUrl(r.text) \notin {Null, Thrown}
            THEN /\ Respond(AnswerUrl(r.text), "claude_websearch")
                 /\ UNCHANGED <<hAttempt, hWaitMs, hWaited>>
          ELSE /\ Respond(NotAvailable, "exhausted")
               /\ UNCHANGED <<hAttempt, hWaitMs, hWaited>>
  /\ UNCHANGED <<hName, hLive, hGoogle, hResults, hGoogleResults>>
  /\ UNCHANGED <<exVars, enVars, bVars, cVars, fVars, sVars, rVars>>

HandlerNext == HPhase1 \/ HPhase2 \/ HPhase3 \/ HPhase4

SpecHandler == HandlerInit /\ [][HandlerNext]_vars

\* ------------------------------------------------------------------------
\* The batch specification: Start, Stop, Retry Not Available and the workers
\* ------------------------------------------------------------------------
\* The files loaded: two rows (one with a quoted name), one row, two rows
\* of a file without an id column, and a row whose name is empty.
CsvTexts ==
  { <<"n","a","m","e",",","e","m","p","l","o","y","e","e","s",",","i","d","\n","\"","A","c","m","e"," ","R","o","b","o","t","i","c","s"," ","I","n","c","\"",",","5","0",",","1","\n","W","i","d","g","e","t"," ","C","o",",","7",",","2">>,
    <<"n","a","m","e",",","e","m","p","l","o","y","e","e","s",",","i","d","\n","W","i","d","g","e","t"," ","C","o",",","7",",","1","\n">>,
    <<"n","a","m","e","\n","A","c","m","e"," ","R","o","b","o","t","i","c","s"," ","I","n","c","\n","W","i","d","g","e","t"," ","C","o">>,
    <<"n","a","m","e",",","e","m","p","l","o","y","e","e","s",",","i","d","\n",",","1","2",",","1">> }

\* The lists of companies loaded
Loads == {parseCSV(t) : t \in CsvTexts}

\* The lists whose rows all have an id
LoadsWithIds == {l \in Loads : \A k \in 1..Len(l) : l[k].id # <<>>}

BatchNames == {<<"A","c","m","e"," ","R","o","b","o","t","i","c","s"," ","I","n","c">>, <<"W","i","d","g","e","t"," ","C","o">>, <<>>}

\* What the calls of one resolution of v7 return: every call fails (the
\* service is unreachable or refuses the key), every call answers
\* NOTFOUND, every call answers with the same site.
BatchOutcomes ==
  { [k \in 1..5 |-> Thrown],
    [k \in 1..5 |-> <<"N","O","T","F","O","U","N","D">>],
    [k \in 1..5 |-> <<"h","t","t","p","s",":","/","/","w","w","w",".","a","c","m","e",".","i","o","/","a","b","o","u","t">>] }

\* enrichCompany of v7 for each name and each course of the calls
Resolutions ==
  [n \in BatchNames, o \in BatchOutcomes |-> RunFrom("v7", n, NewRun("v7"), o)]

\* Every call the resolution made has failed
AllThrown(o, calls) == \A k \in 1..calls : o[k] = Thrown

\* What findWebsite of v11 meets: the status of the response and the url
\* and method of its body (a fetch that rejects ends as a response that is
\* not ok does).
FindOutcomes ==
  { [status |-> 200, url |-> <<"h","t","t","p","s",":","/","/","w","w","w",".","a","c","m","e",".","i","o">>, method |-> "domain_variation"],
    [status |-> 200, url |-> <<>>, method |-> ""],
    [status |-> 429, url |-> <<>>, method |-> ""],
    [status |-> 500, url |-> <<>>, method |-> ""] }

BatchInit(ver, loads) ==
  /\ bVer = ver
  /\ companies \in loads
  /\ stats = [found |-> 0, notAvailable |-> 0]
  /\ running = FALSE /\ done = FALSE /\ stopRef = FALSE
  /\ batches = [b \in 1..MaxBatches |-> FreeBatch]
  /\ bLast = FreeBatch /\ bOutage = TRUE
  /\ ExtractIdle /\ EnrichIdle /\ HandlerIdle /\ CallIdle /\ FlightIdle /\ SimIdle /\ RoundIdle

FreeSlots == {b \in 1..MaxBatches : batches[b].pc = "free"}

\* The state after a step that left batch b as bt, the companies as cs and
\* the counters as st, having taken the targets at the positions from..to.
\* When every worker has left its loop Promise.all resolves and runBatch
\* ends: setRunning(false); setDone(true).
BatchBecomes(b, bt, cs, st, from, to, run, dn) ==
  /\ companies' = MarkPicked(bVer, cs, bt.targets, from, to)
  /\ stats' = st
  /\ IF AllExited(bt)
       THEN /\ batches' = [batches EXCEPT ![b] = FreeBatch]
            /\ running' = FALSE /\ done' = TRUE
            /\ bLast' = bt
       ELSE /\ batches' = [batches EXCEPT ![b] = bt]
            /\ running' = run /\ done' = dn
            /\ bLast' = FreeBatch
  /\ UNCHANGED <<bVer, exVars, enVars, hVars, cVars, fVars, sVars, rVars>>

\* runBatch(targets) in slot b
RunBatch(b, bt, cs, st) ==
  /\ stopRef' = FALSE
  /\ BatchBecomes(b, bt, cs, st, 1, bt.idx, TRUE, FALSE)

\* The Start button: runAll
Start ==
  /\ Len(companies) > 0 /\ ~running
  /\ WithStatus(companies, "pending") # <<>>
  /\ FreeSlots # {}
  /\ RunBatch(SetMin(FreeSlots), NewBatch(bVer, WithStatus(companies, "pending")),
              companies, [found |-> 0, notAvailable |-> 0])
  /\ UNCHANGED bOutage

\* The Stop button
Stop ==
  /\ running
  /\ stopRef' = TRUE
  /\ batches' = [b \in 1..MaxBatches |->
                   IF batches[b].pc = "running"
                     THEN [batches[b] EXCEPT !.stopSeen = TRUE] ELSE batches[b]]
  /\ bLast' = FreeBatch
  /\ UNCHANGED <<bVer, companies, stats, running, done, bOutage, exVars, enVars, hVars, cVars, fVars, sVars, rVars>>

\* The Retry button: rerunNotAvailable up to its setTimeout
Retry ==
  /\ ~running
  /\ WithStatus(companies, "notAvailable") # <<>>
  /\ FreeSlots # {}
  /\ batches' = [batches EXCEPT ![SetMin(FreeSlots)] =
                   [FreeBatch EXCEPT !.pc = "timer",
                                     !.targets = WithStatus(companies, "notAvailable")]]
  /\ companies' = [k \in 1..Len(companies) |->
                     IF companies[k].status = "notAvailable"
                       THEN [companies[k] EXCEPT !.status = "pending", !.website = <<>>,
                                                !.searchStep = ""]
                       ELSE companies[k]]
  /\ stats' = [stats EXCEPT !.notAvailable = 0]
  /\ bLast' = FreeBatch
  /\ UNCHANGED <<bVer, running, done, stopRef, bOutage, exVars, enVars, hVars, cVars, fVars, sVars, rVars>>

\* The timer of rerunNotAvailable fires: runBatch(targets)
TimerFires(b) ==
  /\ batches[b].pc = "timer"
  /\ RunBatch(b, NewBatch(bVer, batches[b].targets), companies, stats)
  /\ UNCHANGED bOutage

\* The company worker w of batch bt resolves
Current(bt, w) == companies[bt.targets[bt.workers[w].cur]]

\* v7: enrichCompany returns r after the calls went as o; updateCompany,
\* then the delay between two companies.
Finish_v7(b, w, bt, o, r) ==
  /\ stats.found < MaxCount /\ stats.notAvailable < MaxCount
  /\ BatchBecomes(b,
       [bt EXCEPT !.workers[w].pc = "delay"],
       SetResultById(companies, Current(bt, w).id, r.out.url, StatusOf(r.out.url),
                     r.out.step),
       CountResult(stats, StatusOf(r.out.url)),
       1, 0, running, done)
  /\ bOutage' = (bOutage /\ AllThrown(o, r.calls))
  /\ UNCHANGED stopRef

\* A faulty catch, for comparison: the failure is recorded but the worker
\* leaves its loop.
Rejected_v7_break(b, w, bt) ==
  /\ stats.notAvailable < MaxCount
  /\ BatchBecomes(b,
       [bt EXCEPT !.workers[w] = [pc |-> "exited", cur |-> 0]],
       SetResultById(companies, Current(bt, w).id, NotAvailable, "notAvailable", "Error"),
       CountResult(stats, "notAvailable"),
       1, 0, running, done)
  /\ UNCHANGED <<stopRef, bOutage>>

\* v7: enrichCompany rejects (an error raised outside the try blocks of its
\* steps); the catch of processNext records Not Available with the step
\* "Error", then the delay between two companies.
Rejected_v7(b, w, bt) ==
  /\ stats.notAvailable < MaxCount
  /\ BatchBecomes(b,
       [bt EXCEPT !.workers[w].pc = "delay"],
       SetResultById(companies, Current(bt, w).id, NotAvailable, "notAvailable", "Error"),
       CountResult(stats, "notAvailable"),
       1, 0, running, done)
  /\ UNCHANGED <<stopRef, bOutage>>

\* v11: findWebsite returns url (ok), or throws an error other than
\* RATE_LIMIT; updateCompany and the next turn of the loop
Resolved_v11(b, w, bt, url, method, ok) ==
  /\ stats.found < MaxCount /\ stats.notAvailable < MaxCount
  /\ BatchBecomes(b,
       LoopHead(bt, w, stopRef),
       SetResultById(companies, Current(bt, w).id, url, StatusOf(url), method),
       CountResult(stats, StatusOf(url)),
       bt.idx + 1, LoopHead(bt, w, stopRef).idx, running, done)
  /\ bOutage' = (bOutage /\ ~ok)
  /\ UNCHANGED stopRef

\* v11: findWebsite throws RATE_LIMIT; idx--, the company is pending again
\* and the worker waits ten seconds.
RateLimited_v11(b, w, bt) ==
  /\ BatchBecomes(b,
       [bt EXCEPT !.idx = bt.idx - 1, !.workers[w].pc = "delay"],
       SetStatusById(companies, Current(bt, w).id, "pending"),
       stats, 1, 0, running, done)
  /\ UNCHANGED <<stopRef, bOutage>>

Finish_v11(b, w, bt, resp) ==
  IF resp.status = 429 THEN RateLimited_v11(b, w, bt)
  ELSE IF resp.status = 200
    THEN Resolved_v11(b, w, bt, IF resp.url = <<>> THEN NotAvailable ELSE resp.url,
                      resp.method, TRUE)
  ELSE Resolved_v11(b, w, bt, NotAvailable, "error", FALSE)

\* The resolution worker w of batch b awaits settles
WorkerFinish(b, w) ==
  /\ batches[b].pc = "running"
  /\ w \in 1..Len(batches[b].workers)
  /\ batches[b].workers[w].pc = "busy"
  /\ IF bVer = "v7"
       THEN \/ \E o \in BatchOutcomes :
                 Finish_v7(b, w, batches[b], o, Resolutions[Current(batches[b], w).name, o])
            \/ Rejected_v7(b, w, batches[b])
       ELSE \E resp \in FindOutcomes : Finish_v11(b, w, batches[b], resp)

\* The delay worker w of batch b awaits is over: the next turn of the loop
WorkerWake(b, w) ==
  /\ batches[b].pc = "running"
  /\ w \in 1..Len(batches[b].workers)
  /\ batches[b].workers[w].pc = "delay"
  /\ BatchBecomes(b, LoopHead(batches[b], w, stopRef), companies, stats,
                  batches[b].idx + 1, LoopHead(batches[b], w, stopRef).idx,
                  running, done)
  /\ UNCHANGED <<stopRef, bOutage>>

Workers == 1..CONCURRENCY_v11

BatchNext ==
  \/ Start
  \/ Stop
  \/ Retry
  \/ \E b \in 1..MaxBatches : TimerFires(b)
  \/ \E b \in 1..MaxBatches : \E w \in Workers : WorkerFinish(b, w)
  \/ \E b \in 1..MaxBatches : \E w \in Workers : WorkerWake(b, w)

\* The batch runner of v7 and that of the v11 client
SpecBatch_v7 == BatchInit("v7", Loads) /\ [][BatchNext]_vars
SpecBatch_v11 == BatchInit("v11", LoadsWithIds) /\ [][BatchNext]_vars


\* Every call awaited settles, every delay ends and every timer fires; the
\* user is free to press a button or not.
BatchFairness ==
  \A b \in 1..MaxBatches :
    /\ WF_vars(TimerFires(b))
    /\ \A w \in Workers : WF_vars(WorkerFinish(b, w)) /\ WF_vars(WorkerWake(b, w))

SpecBatchLive_v7 == SpecBatch_v7 /\ BatchFairness
SpecBatchLive_v11 == SpecBatch_v11 /\ BatchFairness
\* ------------------------------------------------------------------------
\* One call of callWithSearch
\* ------------------------------------------------------------------------
Prompts == { <<"F","i","n","d"," ","t","h","e"," ","o","f","f","i","c","i","a","l"," ","w","e","b","s","i","t","e"," ","o","f"," ","A","c","m","e"," ","R","o","b","o","t","i","c","s"," ","I","n","c">> }

\* The contents a response may hold. The request declares one tool,
\* web_search: a block tool_use names it; server_tool_use is the block the
\* service itself runs.
Contents ==
  { << Block("text", "", <<"h","t","t","p","s",":","/","/","w","w","w",".","a","c","m","e",".","i","o">>) >>,
    << Block("text", "", <<"I"," ","w","i","l","l"," ","s","e","a","r","c","h",".">>), Block("tool_use", "web_search", <<>>) >>,
    << Block("tool_use", "web_search", <<>>) >>,
    << Block("server_tool_use", "web_search", <<>>),
       Block("text", "", <<"N","O","T","F","O","U","N","D">>), Block("text", "", <<"h","t","t","p","s",":","/","/","w","w","w",".","a","c","m","e",".","i","o">>) >>,
    <<>> }

\* The responses of POST /api/search
CallResponses ==
  {[status |-> 200, content |-> c] : c \in Contents}
    \cup {[status |-> 429, content |-> <<>>], [status |-> 500, content |-> <<>>]}

\* callWithSearch was called and has posted round 1.
CallInit ==
  /\ cVer \in Versions
  /\ cPrompt \in Prompts
  /\ cPc = "round1"
  /\ cSent = <<Round1Body(cPrompt)>>
  /\ cAttempt = 0 /\ cWaited = <<>>
  /\ cData1 = <<>> /\ cGot1 = FALSE
  /\ cOut = <<>>
  /\ ExtractIdle /\ EnrichIdle /\ HandlerIdle /\ BatchIdle /\ FlightIdle /\ SimIdle /\ RoundIdle

\* The response is a 429 that fetchWithRetry of v7 answers by waiting and
\* posting the same body again.
Retried(resp) ==
  /\ cVer = "v7" /\ resp.status = 429 /\ cAttempt < MAX_RETRIES
  /\ cAttempt' = cAttempt + 1
  /\ cWaited' = Append(cWaited, RetryWait(cAttempt))
  /\ cSent' = Append(cSent, cSent[Len(cSent)])
  /\ UNCHANGED <<cPc, cData1, cGot1, cOut>>

\* The response makes the call throw.
CallThrows(resp) ==
  /\ resp.status # 200
  /\ cPc' = "thrown" /\ cOut' = Thrown
  /\ UNCHANGED <<cSent, cAttempt, cWaited, cData1, cGot1>>

\* Round 1 returns: the text is the answer, or round 2 is posted.
Round1Returns(resp) ==
  /\ resp.status = 200
  /\ cData1' = resp.content /\ cGot1' = TRUE
  /\ cAttempt' = 0
  /\ IF usedSearch(cVer, resp.content)
       THEN /\ cPc' = "round2"
            /\ cWaited' = cWaited \o RoundDelay(cVer)
            /\ cSent' = Append(cSent, Round2Body(cPrompt, resp.content))
            /\ UNCHANGED cOut
       ELSE /\ cPc' = "done"
            /\ cOut' = JoinText(resp.content, TRUE)
            /\ UNCHANGED <<cSent, cWaited>>

\* Round 2 returns: the answer is the text of both rounds.
Round2Returns(resp) ==
  /\ resp.status = 200
  /\ cPc' = "done"
  /\ cOut' = JoinText(cData1, TRUE) \o <<"\n">> \o JoinText(resp.content, TRUE)
  /\ UNCHANGED <<cSent, cAttempt, cWaited, cData1, cGot1>>

Round1Responds ==
  /\ cPc = "round1"
  /\ \E resp \in CallResponses :
       IF cVer = "v7" /\ resp.status = 429 /\ cAttempt < MAX_RETRIES
         THEN Retried(resp)
         ELSE CallThrows(resp) \/ Round1Returns(resp)
  /\ UNCHANGED <<cVer, cPrompt, exVars, enVars, hVars, bVars, fVars, sVars, rVars>>

Round2Responds ==
  /\ cPc = "round2"
  /\ \E resp \in CallResponses :
       IF cVer = "v7" /\ resp.status = 429 /\ cAttempt < MAX_RETRIES
         THEN Retried(resp)
         ELSE CallThrows(resp) \/ Round2Returns(resp)
  /\ UNCHANGED <<cVer, cPrompt, exVars, enVars, hVars, bVars, fVars, sVars, rVars>>

CallNext == Round1Responds \/ Round2Responds

SpecCall == CallInit /\ [][CallNext]_vars

\* ------------------------------------------------------------------------
\* The calls in flight: enrichCompany (v7, v8) call by call, and phase 1
\* of the handler (v11) probe by probe
\* ------------------------------------------------------------------------
\* The probes followed one by one
MaxProbes == 3

FlightNames == { <<"A","c","m","e"," ","R","o","b","o","t","i","c","s"," ","I","n","c">>, <<"A","c","m","e",".","i","o"," ","L","a","b","s">> }
ProbeNames == { <<"A","c","m","e"," ","R","o","b","o","t","i","c","s"," ","I","n","c">>, <<"L","i","n","k","e","d","I","n",".","c","o","m">>, <<"T","h","e"," ","A","c","m","e">> }

\* The steps of enrichCompany that await searchStep
SearchSteps == {"step1", "step2", "step3", "step5", "step6"}

\* The place of a probe that has not settled
Pending == <<"p","e","n","d","i","n","g">>

\* The variations whose probes are followed
ProbedUrls(name) == Prefix(generateVariations(name), MaxProbes)

FlightInit ==
  /\ \/ /\ enVer \in {"v7", "v8"}
        /\ enName \in FlightNames
        /\ enPc = NewRun(enVer).pc
        /\ enResults = <<>> /\ enOut = NoResult /\ enCalls = 0
        /\ enLast = "none" /\ enText = <<>>
        /\ HandlerIdle
     \/ /\ hName \in ProbeNames
        /\ hPc = "phase1"
        /\ hLive = <<>> /\ hGoogle = <<>>
        /\ hResults = <<>> /\ hGoogleResults = <<>>
        /\ hOut = NoResponse
        /\ hAttempt = 0 /\ hWaitMs = 0 /\ hWaited = <<>>
        /\ hResp = NoAnswer
        /\ hCalls = 0
        /\ EnrichIdle
  /\ fPc = "issue" /\ fPending = {} /\ fTitles = <<>>
  /\ ExtractIdle /\ BatchIdle /\ CallIdle /\ SimIdle /\ RoundIdle

\* The step of enrichCompany at st.pc, given what its call returned
StageStep(ver, name, st, outcome) ==
  IF st.pc = "step1" THEN Step1(ver, name, st, outcome)
  ELSE IF st.pc = "step2" THEN Step2(ver, st, outcome)
  ELSE IF st.pc = "step3" THEN Step3(ver, st, outcome)
  ELSE IF st.pc = "step5" THEN Step5(ver, st, outcome)
  ELSE Step6(ver, name, st, outcome)

\* enrichCompany reaches await searchStep(...): the call is made
FIssueCall ==
  /\ fPc = "issue" /\ enPc \in SearchSteps
  /\ fPc' = "await"
  /\ fPending' = fPending \cup {enPc}
  /\ UNCHANGED <<fTitles, exVars, enVars, hVars, bVars, cVars, sVars, rVars>>

\* The call returns or throws; the step goes on to its end
FCallSettles ==
  /\ fPc = "await" /\ enPc \in SearchSteps
  /\ \E o \in Outcomes : EnrichAssign(StageStep(enVer, enName, EnrichState, o))
  /\ fPc' = "issue"
  /\ fPending' = fPending \ {enPc}
  /\ UNCHANGED <<enVer, enName, fTitles, exVars, hVars, bVars, cVars, sVars, rVars>>

\* The steps that make no call: the instant step of v8 and Step 4
FLocalStep ==
  /\ fPc = "issue" /\ enPc \in {"instant", "step4"}
  /\ EnrichAssign(IF enPc = "instant"
                    THEN InstantWith(NameDomains[enName], EnrichState)
                    ELSE Step4With(NameHints[enName], EnrichState))
  /\ UNCHANGED <<enVer, enName, fVars, exVars, hVars, bVars, cVars, sVars, rVars>>

\* variations.map(async (url) => ...): every callback runs to its await
\* fetchTitle(url), so all the probes are under way before one settles
FStartProbes ==
  /\ fPc = "issue" /\ hPc = "phase1"
  /\ fPc' = "await"
  /\ fPending' = 1..Len(ProbedUrls(hName))
  /\ fTitles' = [k \in 1..Len(ProbedUrls(hName)) |-> Pending]
  /\ UNCHANGED <<exVars, enVars, hVars, bVars, cVars, sVars, rVars>>

\* One probe settles: fetchTitle gives a title, or null (failure, timeout
\* after 3 s, status not ok, no title)
FProbeSettles ==
  /\ fPc = "await" /\ hPc = "phase1"
  /\ \E k \in fPending :
       \E t \in (IF ProbedUrls(hName)[k] \in Sites THEN PageTitles ELSE {}) \cup {Null} :
         /\ fTitles' = [fTitles EXCEPT ![k] = t]
         /\ fPending' = fPending \ {k}
  /\ UNCHANGED <<fPc, exVars, enVars, hVars, bVars, cVars, sVars, rVars>>

\* Promise.allSettled resolves once no probe is pending
AllSettled_any == TRUE

AllSettled == fPending = {}

\* await Promise.allSettled(...) returns: the live results are scored
FJoin ==
  /\ fPc = "await" /\ hPc = "phase1"
  /\ AllSettled
  /\ LET urls == ProbedUrls(hName)
         titles == [u \in Range(urls) |->
                      fTitles[SetMin({k \in 1..Len(urls) : urls[k] = u})]]
         decide(live, strong) ==
           /\ hLive' = live
           /\ hResults' = Settled(urls, titles)
           /\ IF strong > 0
                THEN Respond(live[strong].url, "domain_variation")
                ELSE hPc' = "phase2" /\ UNCHANGED hOut
         probed(live) == decide(live, StrongMatch(live))
     IN  probed(LiveResults(hName, urls, titles))
  /\ fPc' = "joined"
  /\ UNCHANGED <<fPending, fTitles>>
  /\ UNCHANGED <<hName, hGoogle, hGoogleResults, hAttempt, hWaitMs, hWaited, hResp, hCalls>>
  /\ UNCHANGED <<exVars, enVars, bVars, cVars, sVars, rVars>>

FlightNext ==
  FIssueCall \/ FCallSettles \/ FLocalStep \/ FStartProbes \/ FProbeSettles \/ FJoin

SpecFlight == FlightInit /\ [][FlightNext]_vars

\* ------------------------------------------------------------------------
\* nameSimilarity on bounded names and domains
\* ------------------------------------------------------------------------
SimNames ==
  { <<"A","c","m","e"," ","R","o","b","o","t","i","c","s"," ","I","n","c">>, <<"D","i","g","i","t","a","l"," ","B","i","o","l","o","g","y"," ","I","n","c">>, <<"W","i","d","g","e","t"," ","C","o">>, <<"T","h","e"," ","C","o">>,
    <<"T","e","c","h","n","o","l","o","g","y"," ","S","o","l","u","t","i","o","n","s">>, <<"A","c","m","e","c","o","r","p"," ","R","o","b","o","t","i","c","s"," ","L","a","b","s">>, <<"B","i","o","-","W","o","r","k","s"," ","&"," ","W","i","d","g","e","t","s">>,
    <<"I","O"," ","R","o","b","o","t","i","c","s">> }

SimDomains ==
  { <<"h","t","t","p","s",":","/","/","w","w","w",".","a","c","m","e",".","i","o">>, <<"h","t","t","p","s",":","/","/","a","c","m","e","r","o","b","o","t","i","c","s",".","c","o","m">>, <<"h","t","t","p","s",":","/","/","d","i","g","i","t",".","b","i","o">>,
    <<"h","t","t","p","s",":","/","/","w","w","w",".","w","i","d","g","e","t","c","o",".","c","o","m","/","a","b","o","u","t">>, <<"h","t","t","p","s",":","/","/","m","y","r","o","b","o",".","w","o","r","k","s">>,
    <<"h","t","t","p","s",":","/","/","w","w","w",".","a","c","m","e","-","r","o","b","o","t","i","c","s",".","c","o",".","u","k">>, <<"h","t","t","p","s",":","/","/","w","i","d","g","e",".","l","a","b","s">>, <<"a","c","m","e">>,
    <<"H","T","T","P","S",":","/","/","W","W","W",".","A","C","M","E",".","I","O">> }

SimInit ==
  /\ sName \in SimNames
  /\ sDomain \in SimDomains
  /\ sPc = "call"
  /\ sOut = [num |-> 0, den |-> 1, ulp |-> 0]
  /\ ExtractIdle /\ EnrichIdle /\ HandlerIdle /\ BatchIdle /\ CallIdle
  /\ FlightIdle /\ RoundIdle

\* nameSimilarity(companyName, domainFull) is called and returns.
SimCall ==
  /\ sPc = "call"
  /\ sOut' = nameSimilarity(sName, sDomain)
  /\ sPc' = "done"
  /\ UNCHANGED <<sName, sDomain, exVars, enVars, hVars, bVars, cVars, fVars, rVars>>

SimNext == SimCall

SpecSimilarity == SimInit /\ [][SimNext]_vars

\* ------------------------------------------------------------------------
\* One call of fetchWithRetry through the proxy /api/search
\* ------------------------------------------------------------------------
\* MAX_RETRIES and the first waitMs of the proxy handler
PROXY_MAX_RETRIES == 5
PROXY_WAIT_MS == 8000

\* What a request to the external service may come to: a response with a
\* status and a JSON body or not, or a rejected fetch (status 0).
ServiceOutcomes ==
  [status : {200, 429, 500}, json : BOOLEAN] \cup {[status |-> 0, json |-> FALSE]}

\* res.ok
Ok(status) == status >= 200 /\ status <= 299

\* attempt === maxRetries of fetchWithRetry, maxRetries being 5
IsLastAttempt_never(attempt) == FALSE

IsLastAttempt(attempt) == attempt = MAX_RETRIES

\* fetchWithRetry was called and has posted its first request.
RoundInit ==
  /\ rPc = "posted"
  /\ rAttempt = 0 /\ rWaitMs = RETRY_WAIT_MS
  /\ rProxyAttempt = 0 /\ rProxyWaitMs = PROXY_WAIT_MS
  /\ rStatus = 0 /\ rReached = 0 /\ rOut = "none"
  /\ ExtractIdle /\ EnrichIdle /\ HandlerIdle /\ BatchIdle /\ CallIdle
  /\ FlightIdle /\ SimIdle

RoundFrame == UNCHANGED <<exVars, enVars, hVars, bVars, cVars, fVars, sVars>>

\* The proxy answers the client with the status st.
ProxyAnswers(st) ==
  /\ rPc' = "answered" /\ rStatus' = st
  /\ UNCHANGED <<rProxyAttempt, rProxyWaitMs>>

\* One turn of the loop of the proxy handler: the request goes to the
\* external service; a 429 is waited out and tried again, the sixth is
\* answered to the client; any other response is passed on with its
\* status. A rejected fetch or a body that is no JSON makes the handler
\* throw, which the platform answers with a 500.
ProxyTurn ==
  /\ rPc = "posted"
  /\ rReached' = rReached + 1
  /\ \E o \in ServiceOutcomes :
       IF o.status = 0 THEN ProxyAnswers(500)
       ELSE IF o.status = 429
         THEN IF rProxyAttempt = PROXY_MAX_RETRIES
                THEN ProxyAnswers(429)
                ELSE /\ rProxyAttempt' = rProxyAttempt + 1
                     /\ rProxyWaitMs' = (IF 2 * rProxyWaitMs < BACKOFF_CAP_MS
                                           THEN 2 * rProxyWaitMs ELSE BACKOFF_CAP_MS)
                     /\ UNCHANGED <<rPc, rStatus>>
       ELSE IF o.json THEN ProxyAnswers(o.status)
       ELSE ProxyAnswers(500)
  /\ UNCHANGED <<rAttempt, rWaitMs, rOut>>
  /\ RoundFrame

\* fetchWithRetry ends: it returns the response, throws, or leaves its
\* loop and returns undefined.
RoundEnds(out) ==
  /\ rPc' = "done" /\ rOut' = out
  /\ UNCHANGED <<rAttempt, rWaitMs, rProxyAttempt, rProxyWaitMs>>

\* fetchWithRetry receives the response of the proxy.
ClientTurn ==
  /\ rPc = "answered"
  /\ IF rStatus = 429
       THEN IF IsLastAttempt(rAttempt) THEN RoundEnds("thrown")
            ELSE IF rAttempt + 1 <= MAX_RETRIES
              THEN /\ rPc' = "posted"
                   /\ rAttempt' = rAttempt + 1
                   /\ rWaitMs' = (IF 2 * rWaitMs < RETRY_CAP_MS
                                    THEN 2 * rWaitMs ELSE RETRY_CAP_MS)
                   /\ rProxyAttempt' = 0 /\ rProxyWaitMs' = PROXY_WAIT_MS
                   /\ UNCHANGED rOut
              ELSE RoundEnds("undefined")
       ELSE IF ~Ok(rStatus) THEN RoundEnds("thrown")
       ELSE RoundEnds("returned")
  /\ UNCHANGED <<rStatus, rReached>>
  /\ RoundFrame

\* The request of the client does not get through: fetch rejects.
ClientFetchRejects ==
  /\ rPc = "posted" /\ rProxyAttempt = 0
  /\ RoundEnds("thrown")
  /\ UNCHANGED <<rStatus, rReached>>
  /\ RoundFrame

RoundNext == ProxyTurn \/ ClientTurn \/ ClientFetchRejects

SpecRound == RoundInit /\ [][RoundNext]_vars
\* ------------------------------------------------------------------------
\* Properties of the extractor
\* ------------------------------------------------------------------------
\* The host of a URL the pipeline returned.
HostOf(url) == ParseURL(url).hostname

\* host is an entry of the variant's blocked list or a subdomain of one
HostBlocked(ver, host) ==
  \E d \in BlockedList(ver) : host = d \/ EndsWith(host, <<".">> \o d)

\* C6: for every input text, extractURL never returns a URL whose host is
\* a blocked domain or a subdomain of one, whatever the letter case in
\* which the URL is written in the text.
C6_NeverBlockedHost ==
  (exPc = "done" /\ exOut # Null) => ~HostBlocked(exVer, HostOf(exOut))


\* The match raw0 of urlRegex qualifies: once its trailing punctuation is
\* cut it is not blocked, it parses and its host ends in a listed TLD
AbsQualifies(ver, raw0) ==
  /\ ~isBlocked(ver, StripTrailing(ver, raw0))
  /\ ParseURL(StripTrailing(ver, raw0)).ok
  /\ isValidTLD(ver, ParseURL(StripTrailing(ver, raw0)).hostname)

\* The match raw of bareRegex qualifies
BareQualifies(ver, raw) ==
  /\ ~isBlocked(ver, raw)
  /\ ParseURL(<<"h","t","t","p","s",":","/","/">> \o raw).ok
  /\ isValidTLD(ver, ParseURL(<<"h","t","t","p","s",":","/","/">> \o raw).hostname)

\* The first of the matches ms that qualifies has the origin out
FirstAbsolute(ver, ms, out) ==
  \E k \in 1..Len(ms) :
    /\ AbsQualifies(ver, ms[k])
    /\ \A j \in 1..(k - 1) : ~AbsQualifies(ver, ms[j])
    /\ out = Origin(ParseURL(StripTrailing(ver, ms[k])))
    /\ \A i \in 9..Len(out) : out[i] \notin {"/", "?", "#"}

FirstBare(ver, bs, out) ==
  \E k \in 1..Len(bs) :
    /\ BareQualifies(ver, bs[k])
    /\ \A j \in 1..(k - 1) : ~BareQualifies(ver, bs[j])
    /\ out = Origin(ParseURL(<<"h","t","t","p","s",":","/","/">> \o bs[k]))
    /\ StartsWith(out, <<"h","t","t","p","s",":","/","/">>)

FirstQualifying(ver, ms, bs, out) ==
  IF \E k \in 1..Len(ms) : AbsQualifies(ver, ms[k]) THEN FirstAbsolute(ver, ms, out)
  ELSE IF \E k \in 1..Len(bs) : BareQualifies(ver, bs[k]) THEN FirstBare(ver, bs, out)
  ELSE out = Null

\* C31: extractURL (v7, v8) returns the origin of the first http(s) URL of
\* the text that is not blocked and ends in a listed TLD; the bare domains
\* count only when no such URL is there, the first that qualifies being
\* returned with https:// before it; it returns null when nothing
\* qualifies.
C31_FirstQualifying ==
  (exPc = "done" /\ exVer # "v6") =>
    FirstQualifying(exVer, UrlMatches(exText, 1), BareMatches(exVer, exText, 1), exOut)

C31_Witness ==
  /\ exPc = "done" /\ exVer = "v7"
  /\ Len(UrlMatches(exText, 1)) = 2
  /\ ~AbsQualifies("v7", UrlMatches(exText, 1)[1])
  /\ AbsQualifies("v7", UrlMatches(exText, 1)[2])
  /\ exOut = <<"h","t","t","p","s",":","/","/","b","-","c",".","d","e">>

\* The match raw0 of urlRegex parses and its host is neither a blocked
\* domain nor a subdomain of one
HostNotBlocked(ver, raw0) ==
  /\ ParseURL(StripTrailing(ver, raw0)).ok
  /\ ~HostBlocked(ver, ParseURL(StripTrailing(ver, raw0)).hostname)

\* C32: the extractor rejects a URL as blocked by its host only: a URL
\* whose host is neither a blocked domain nor a subdomain of one is not
\* rejected as blocked, whatever its path and query hold and whatever
\* else its host holds.
C32_BlockedByHostOnly ==
  exPc = "done" =>
    \A k \in 1..Len(UrlMatches(exText, 1)) :
      HostNotBlocked(exVer, UrlMatches(exText, 1)[k])
        => ~isBlocked(exVer, StripTrailing(exVer, UrlMatches(exText, 1)[k]))
\* ------------------------------------------------------------------------
\* Properties of one resolution
\* ------------------------------------------------------------------------
\* url is the origin of an absolute http or https URL (scheme and host, no
\* path) whose host passes the check of the top-level domain.
IsValidOrigin(ver, url) ==
  LET test(u) == u.ok /\ Origin(u) = url /\ isValidTLD(ver, u.hostname)
  IN  test(ParseURL(url))

\* C1: for every name and every combination of stage outcomes, a
\* resolution yields exactly one result (none before it returns), whose
\* url is "Not Available" or an absolute http/https origin whose host
\* passes the top-level-domain allowlist check.
C1_ResultShape ==
  /\ enPc \notin {"done", "idle"} => enOut = NoResult
  /\ enPc = "done" =>
       \/ enOut.url = NotAvailable
       \/ IsValidOrigin(enVer, enOut.url)

\* A resolution whose last search call threw, after five calls, returned a
\* URL found by an earlier step.
C1_Witness ==
  /\ enPc = "done" /\ enCalls = 5 /\ enLast = "thrown"
  /\ enOut.url # NotAvailable /\ IsValidOrigin(enVer, enOut.url)

\* C2: the url of a resolution result is never a URL on a blocked domain,
\* whichever stage produced it.
C2_NeverBlockedResult ==
  (enPc = "done" /\ enOut.url # NotAvailable)
    => ~HostBlocked(enVer, HostOf(enOut.url))

\* The raw name matches ^[a-zA-Z0-9][\w.-]+\.(com|io|net|org|co)$
IsShortCircuitName(name) ==
  /\ name # <<>>
  /\ IsAlnum(name[1])
  /\ \A i \in 1..Len(name) : IsWordChar(name[i]) \/ name[i] \in {".", "-"}
  /\ \E tld \in { <<"c","o","m">>, <<"i","o">>, <<"n","e","t">>, <<"o","r","g">>, <<"c","o">> } :
        EndsWith(name, <<".">> \o tld) /\ Len(name) >= Len(tld) + 3

\* C4: for every raw name matching ^[a-zA-Z0-9][\w.-]+\.(com|io|net|org|co)$
\* the resolution returns https://www.<lowercased name> and makes no
\* network call before returning.
C4_NameShortCircuit ==
  (enPc = "done" /\ IsShortCircuitName(enName))
    => /\ enOut.url = <<"h","t","t","p","s",":","/","/","w","w","w",".">> \o ToLowerCase(enName)
       /\ enCalls = 0

\* The registrable domains that two different search stages retained
AgreedDomains(results) ==
  { getDomainFromURL(results[k].url) :
      k \in { i \in 1..Len(results) :
                \E j \in 1..Len(results) :
                   /\ j # i
                   /\ results[j].step # results[i].step
                   /\ getDomainFromURL(results[j].url)
                        = getDomainFromURL(results[i].url) } }

\* C5 as stated: if two different search stages each retain a candidate
\* with the same registrable domain, the resolution returns that domain
\* marked cross-validated, whatever the similarity scores.
C5_ReturnsEveryAgreedDomain ==
  enPc = "done" =>
    \A d \in AgreedDomains(enResults) :
       enOut.mark = "cross-validated" /\ getDomainFromURL(enOut.url) = d

\* The registrable domain retained first among those of the set ds
FirstRetained(results, ds) ==
  getDomainFromURL(
    results[SetMin({k \in 1..Len(results) :
                      getDomainFromURL(results[k].url) \in ds})].url)

\* The results retained by the stages 1 to 3
EarlyResults(results) ==
  FilterSeq(results,
            {k \in 1..Len(results) :
               results[k].step \in {"Step 1", "Step 2", "Step 3 (LinkedIn)"}}, 1)

\* C5, amended: if two different search stages each retain a candidate
\* with the same registrable domain, the resolution returns a domain on
\* which two stages agree, marked cross-validated, whatever the similarity
\* scores, and of two such domains the one retained first; the check is
\* applied after stages 1-3, before the domain-hint stage, and again over
\* all retained candidates at final arbitration.
C5_ReturnsAnAgreedDomain ==
  enPc = "done" =>
    /\ AgreedDomains(enResults) # {} =>
         /\ enOut.mark = "cross-validated"
         /\ getDomainFromURL(enOut.url)
              = FirstRetained(enResults, AgreedDomains(enResults))
    /\ AgreedDomains(EarlyResults(enResults)) # {} => enCalls = 3
    /\ enOut.mark = "cross-validated" =>
         /\ enCalls \in {3, 5}
         /\ AgreedDomains(enResults) # {}

\* Two domains were each retained by two stages, and the resolution
\* returned cross-validated.
C5_Witness ==
  /\ enPc = "done" /\ enOut.mark = "cross-validated"
  /\ Cardinality(AgreedDomains(enResults)) = 2


\* C14: whenever the answer of a search step holds the sentinel NOTFOUND,
\* the step yields no candidate: no URL is extracted from that answer.
C14_SentinelMeansNoCandidate ==
  (enText # Thrown /\ Includes(enText, <<"N","O","T","F","O","U","N","D">>)) => enLast # "url"

\* The name holds a domain hint: Step 4 (or, in v8, the instant step)
\* returns a URL built from the name.
HoldsDomainHint(ver, name) ==
  \/ domainHint(name) # Null
  \/ ver = "v8" /\ extractDomainFromName(name) # Null

\* The URLs of the candidates retained
RetainedUrls == { enResults[k].url : k \in 1..Len(enResults) }

\* C15: a resolution returns "Not Available" exactly when every search
\* step ran, none retained a candidate and the name holds no domain hint;
\* when the final decision is reached with a candidate retained, the
\* result is the URL of one of the retained candidates.
C15_ExhaustedOrRetained ==
  enPc = "done" =>
    /\ enOut.url = NotAvailable
         <=> /\ enCalls = 5
             /\ Len(enResults) = 0
             /\ ~HoldsDomainHint(enVer, enName)
    /\ (enCalls = 5 /\ Len(enResults) > 0) => enOut.url \in RetainedUrls

\* The final decision was reached with two candidates of different domains
\* retained, and the one returned was chosen by similarity.
C15_Witness ==
  /\ enPc = "done" /\ enCalls = 5 /\ Len(enResults) >= 2
  /\ enOut.mark = "" /\ enOut.url \in RetainedUrls

\* C18: a resolution eventually terminates even if an external call never
\* responds: every network call is bounded by a timeout, after which its
\* stage fails and the resolution goes on.
C18_ResolutionTerminates == <>(enPc = "done")

\* The words of the name that add award tenths to the similarity score of
\* the URL
AwardedWords(name, url, award) ==
  LET among(ws) ==
        { ws[k] : k \in { i \in 1..Len(ws) :
                            WordAward(ws[i], DomainName(url), TldWord(url)) = award } }
  IN  among(NameWords(name))

\* C20: the similarity of "Digital Biology Inc" and a URL on digit.bio is
\* at least 0.7, obtained from both keywords: "digital" by the prefix rule
\* (0.8) and "biology" by the rule of the TLD word (0.7).
C20_BothKeywordsMatch ==
  \A k \in 1..Len(enResults) :
    (enName = <<"D","i","g","i","t","a","l"," ","B","i","o","l","o","g","y"," ","I","n","c">> /\ enResults[k].url = <<"h","t","t","p","s",":","/","/","d","i","g","i","t",".","b","i","o">>)
      => /\ ScoreAtLeast(nameSimilarity(enName, enResults[k].url), 7)
         /\ <<"d","i","g","i","t","a","l">> \in AwardedWords(enName, enResults[k].url, 8)
         /\ <<"b","i","o","l","o","g","y">> \in AwardedWords(enName, enResults[k].url, 7)

\* The state a step of enrichCompany leads to, from the state st and the
\* text its call returns (Thrown: the call threw); the instant step and
\* Step 4 make no call.
StepFrom(ver, name, st, text) ==
  IF st.pc = "instant" THEN Instant(name, st)
  ELSE IF st.pc = "step1" THEN Step1(ver, name, st, text)
  ELSE IF st.pc = "step2" THEN Step2(ver, st, text)
  ELSE IF st.pc = "step3" THEN Step3(ver, st, text)
  ELSE IF st.pc = "step4" THEN Step4(name, st)
  ELSE IF st.pc = "step5" THEN Step5(ver, st, text)
  ELSE Step6(ver, name, st, text)

\* A step leads to one state only, given the state before it and the text
\* received.
SameInputsSameStep ==
  EnrichState' = StepFrom(enVer, enName, EnrichState, enText')

\* The step of the domain in the name returns the guess made from the name,
\* or goes on with the candidates untouched: nothing else decides.
HintFromNameOnly ==
  enPc = "step4" =>
    /\ enResults' = enResults
    /\ IF domainHint(enName) # Null
         THEN enPc' = "done" /\ enOut'.url = domainHint(enName)
         ELSE enPc' = "step5" /\ enOut' = NoResult

EarlyExitAtStep1 ==
  (enPc = "step1" /\ enLast' = "url") =>
    /\ enCalls' = 1 /\ Len(enResults') = 1
    /\ IF ScoreAtLeast(nameSimilarity(enName, enResults'[1].url), 8)
         THEN enPc' = "done" /\ enOut'.url = enResults'[1].url
         ELSE enPc' = "step2" /\ enOut' = NoResult

\* C23: if the search of the official site (Step 1) yields a candidate
\* whose similarity is at least 0.8 the resolution returns it at once and
\* no later search is made; below 0.8 the candidate is retained and the
\* next step runs.
C23_EarlyExit ==
  /\ [][EarlyExitAtStep1]_vars
  /\ [](enOut.mark = "high confidence" => enPc = "done" /\ enCalls = 1)
  /\ []((enPc = "done" /\ enCalls > 1 /\ Len(enResults) > 0 /\ enResults[1].step = "Step 1")
          => ~ScoreAtLeast(nameSimilarity(enName, enResults[1].url), 8))

\* Step 1 found a site of high similarity and the resolution returned it
\* after one call.
C23_Witness ==
  /\ enPc = "done" /\ enCalls = 1 /\ enOut.mark = "high confidence"
  /\ ScoreAtLeast(nameSimilarity(enName, enOut.url), 8)

\* The guesses a domain in the name allows: https://www. and, in lower
\* case, a piece of the name made of label characters, a dot and one of
\* the endings of Step 4, where a word ends
HintsIn(name) ==
  { <<"h","t","t","p","s",":","/","/","w","w","w",".">> \o ToLowerCase(SubSeq(name, i, j)) : <<i, j>> \in
      { ij \in (1..Len(name)) \X (1..Len(name)) :
          /\ WordBoundary(name, ij[2])
          /\ \E a \in 1..Len(HINT_TLDS) :
                /\ ij[2] - ij[1] >= Len(HINT_TLDS[a]) + 1
                /\ ToLowerCase(SubSeq(name, ij[2] - Len(HINT_TLDS[a]), ij[2]))
                     = <<".">> \o HINT_TLDS[a]
                /\ \A k \in ij[1]..(ij[2] - Len(HINT_TLDS[a]) - 1) :
                     IsLabelChar(name[k]) } }

NameHintsIn == [n \in Names |-> HintsIn(n)]

HintIsTerminal ==
  (enPc = "step4" /\ NameHintsIn[enName] # {}) =>
    /\ enPc' = "done"
    /\ enOut'.url \in NameHintsIn[enName]
    /\ enCalls' = enCalls

\* C24: when Steps 1 to 3 neither exit nor cross-validate and the name holds
\* a domain, Step 4 returns https://www. and that domain in lower case at
\* once: Steps 5 and 6 make no call and the candidates retained so far have
\* no part in the result.
C24_HintIsTerminal ==
  /\ [][HintIsTerminal]_vars
  /\ [](enOut.mark = "domain in name" =>
          enPc = "done" /\ enCalls = 3 /\ enOut.url \in NameHintsIn[enName])

C24_Witness ==
  /\ enPc = "done" /\ enOut.mark = "domain in name" /\ enVer = "v8"
  /\ Len(enResults) = 2
  /\ \A k \in 1..2 : enResults[k].url # enOut.url

\* The registrable domain of a URL: the last two labels of its host
RegistrableDomain(url) ==
  LET lastTwo(labels) ==
        IF Len(labels) <= 2 THEN labels
        ELSE SubSeq(labels, Len(labels) - 1, Len(labels))
  IN  Join(lastTwo(SplitOn(getDomainFromURL(url), ".")), <<".">>)

NoSharedDomain(results) ==
  \A j, k \in 1..Len(results) :
    j # k => RegistrableDomain(results[j].url) # RegistrableDomain(results[k].url)

\* The candidate k of results has the highest similarity to name, and a
\* higher one than every candidate before it
IsEarliestBest(name, results, k) ==
  /\ \A j \in 1..Len(results) :
        ~ScoreGreater(nameSimilarity(name, results[j].url),
                      nameSimilarity(name, results[k].url))
  /\ \A j \in 1..(k - 1) :
        ScoreGreater(nameSimilarity(name, results[k].url),
                     nameSimilarity(name, results[j].url))

AtFinalDecision ==
  enPc = "done" /\ enCalls = 5 /\ Len(enResults) > 0

\* C25: at the final decision, when no two of the candidates retained have
\* the same registrable domain, the result is the candidate with the
\* highest name similarity and, among equal ones, the one of the earliest
\* step.
C25_HighestSimilarityWins ==
  (AtFinalDecision /\ NoSharedDomain(enResults)) =>
    \E k \in 1..Len(enResults) :
      /\ enOut.url = enResults[k].url
      /\ enOut.step = enResults[k].step
      /\ IsEarliestBest(enName, enResults, k)

C25_Witness ==
  /\ AtFinalDecision /\ NoSharedDomain(enResults)
  /\ Len(enResults) = 2
  /\ enOut.url = enResults[1].url
  /\ ~ScoreGreater(nameSimilarity(enName, enResults[1].url),
                   nameSimilarity(enName, enResults[2].url))

\* The domain hint Step 4 of v6 finds in the name, Null when it finds none
Hint_v6(name) ==
  LabelDotMatch(name, HINT_TLDS_v6, {e \in 1..Len(name) : WordBoundary(name, e)})

\* The number of calls made when the search step s of v6 has been made
CallsThrough_v6 == [step1 |-> 1, step2 |-> 2, step3 |-> 3, step5 |-> 4, step6 |-> 5]

\* C34: in the first-hit pipeline v6 a resolution returns "Not Available"
\* only after the five search steps 1, 2, 3, 5 and 6 were all made, the
\* last of them extracted no URL and the name holds no domain hint; a step
\* that extracts a URL ends the resolution at once, with that step's label
\* and with no call made after it.
C34_FirstHitPipeline ==
  /\ (enPc = "done" /\ enOut.url = NotAvailable)
       => /\ enCalls = 5
          /\ enLast # "url"
          /\ Hint_v6(enName) = Null
  /\ enLast = "url"
       => /\ enPc = "done"
          /\ enOut.url # NotAvailable
          /\ \E s \in DOMAIN Steps_v6 :
               enOut.step = Steps_v6[s].step /\ enCalls = CallsThrough_v6[s]
  /\ enPc \in DOMAIN Steps_v6 => (enCalls = CallsThrough_v6[enPc] - 1 /\ enLast # "url")

\* The five search steps were made, one of them threw, and the resolution
\* returned "Not Available".
C34_Witness ==
  /\ enVer = "v6" /\ enPc = "done" /\ enOut.url = NotAvailable
  /\ enCalls = 5 /\ enLast = "thrown"

\* The place of a search stage in the pipeline, from the label it records
StageNo(step) ==
  CASE step = "Step 1" -> 1
    [] step = "Step 2" -> 2
    [] step = "Step 3 (LinkedIn)" -> 3
    [] step = "Step 5 (directory)" -> 5
    [] step = "Step 6 (last resort)" -> 6

\* The earliest stage that retained a candidate of the domain d
EarliestStage(results, d) ==
  SetMin({StageNo(results[k].step) :
            k \in {i \in 1..Len(results) : getDomainFromURL(results[i].url) = d}})

\* Of the domains agreed on, the one whose first candidate is the earliest
EarliestAgreed(results) ==
  CHOOSE d \in AgreedDomains(results) :
    \A e \in AgreedDomains(results) :
      EarliestStage(results, d) <= EarliestStage(results, e)

\* C38: when two different domains are each agreed on by two stages at the
\* final decision, the result is cross-validated, its domain is the one
\* whose first candidate came from the earlier stage, and its URL and
\* step are those recorded by the earliest stage that found that domain.
C38_EarliestAgreedDomainWins ==
  (AtFinalDecision /\ Cardinality(AgreedDomains(enResults)) >= 2) =>
    /\ enOut.mark = "cross-validated"
    /\ getDomainFromURL(enOut.url) = EarliestAgreed(enResults)
    /\ \E k \in 1..Len(enResults) :
         /\ enResults[k].url = enOut.url
         /\ enResults[k].step = enOut.step
         /\ StageNo(enResults[k].step)
              = EarliestStage(enResults, EarliestAgreed(enResults))

\* The final decision was reached with two domains each retained by two
\* stages, the stages 1 and 5 or 6 agreeing on the domain returned.
C38_Witness ==
  /\ AtFinalDecision
  /\ Cardinality(AgreedDomains(enResults)) = 2
  /\ enOut.mark = "cross-validated"
  /\ enOut.step = "Step 1"
  /\ Len(enResults) >= 4

\* ------------------------------------------------------------------------
\* Properties of the server handler
\* ------------------------------------------------------------------------
\* C3: if the external call of any stage fails (timeout, non-OK status,
\* malformed response, rate limit after retries), the stage contributes no
\* candidate, the later stages still run, and the resolution returns a
\* result instead of throwing.
C3_NeverThrows == hPc # "thrown"


\* The URLs of the candidates the model was shown
PresentedUrls ==
  {Presented(hLive, hGoogle)[k].url : k \in 1..Len(Presented(hLive, hGoogle))}

\* C13: the answer of the model-judgment stage is returned only when the
\* URL it names is one of the candidates that were presented to the model.
C13_AnswerAmongCandidates ==
  (hPc = "done" /\ hOut.method = "claude_judgment") => hOut.url \in PresentedUrls

\* The wait before retry k+1 when the server suggests none: the initial
\* value doubled k times, capped
RECURSIVE Doubled(_)
Doubled(k) ==
  IF k = 0 THEN FIRST_WAIT_MS
  ELSE IF 2 * Doubled(k - 1) < BACKOFF_CAP_MS THEN 2 * Doubled(k - 1)
  ELSE BACKOFF_CAP_MS

\* A wait of the loop is the duration the server suggested when it gave
\* one, and the doubled duration otherwise.
WaitsAsSuggested ==
  hWaited' # hWaited =>
    hWaited'[Len(hWaited')] =
      IF hResp'.retryAfter >= 0 THEN hResp'.retryAfter * 1000
      ELSE Doubled(Len(hWaited))

\* C16: on repeated 429 responses the call is attempted at most
\* LAST_ATTEMPT + 1 times; each wait is the duration the server suggested
\* when it gave one and the doubled duration otherwise; no wait exceeds
\* the cap of 60 seconds; and a 429 on the last attempt is surfaced as a
\* failure, not answered as an ordinary result.
C16_BoundedBackoff ==
  /\ [](/\ Len(hWaited) <= LAST_ATTEMPT
        /\ \A k \in 1..Len(hWaited) : hWaited[k] <= BACKOFF_CAP_MS
        /\ hResp.status = 429 => hPc # "done")
  /\ [][WaitsAsSuggested]_vars

\* The keywords of a name, given by the positions where they start: the
\* maximal runs of letters and digits of the lowercased name that are
\* longer than two characters and are no stop word.
KeywordAt(name, i) ==
  LET low == ToLowerCase(name)
      isWord(k) == IsLower(low[k]) \/ IsDigit(low[k])
      last == SetMax({j \in i..Len(low) : \A k \in i..j : isWord(k)})
  IN  SubSeq(low, i, last)

KeywordStarts(name) ==
  LET low == ToLowerCase(name)
      isWord(k) == IsLower(low[k]) \/ IsDigit(low[k])
  IN  {i \in 1..Len(low) :
         /\ isWord(i) /\ (i = 1 \/ ~isWord(i - 1))
         /\ Len(KeywordAt(name, i)) > 2
         /\ KeywordAt(name, i) \notin HARD_STOP}

\* score is the share of the keywords of name that occur in the lowercased
\* title: 0 without keywords, and between 0 and 1.
IsKeywordShare(score, name, title) ==
  LET found == {i \in KeywordStarts(name) :
                  Includes(ToLowerCase(title), KeywordAt(name, i))}
  IN  /\ score.den > 0 /\ score.num >= 0 /\ score.num <= 10 * score.den
      /\ IF KeywordStarts(name) = {} THEN score.num = 0
         ELSE score.num * Cardinality(KeywordStarts(name))
                = 10 * Cardinality(found) * score.den

\* The probe of https://www.acmerobotics.com for "Acme Robotics Inc" is
\* live with the title "Acme Robotics - Home".
AcmeProbedLive ==
  /\ hName = <<"A","c","m","e"," ","R","o","b","o","t","i","c","s"," ","I","n","c">>
  /\ \E k \in 1..Len(hLive) :
       /\ hLive[k].url = <<"h","t","t","p","s",":","/","/","w","w","w",".","a","c","m","e","r","o","b","o","t","i","c","s",".","c","o","m">>
       /\ hLive[k].title = <<"A","c","m","e"," ","R","o","b","o","t","i","c","s"," ","-"," ","H","o","m","e">>

\* C19: titleScore(name, title) is the number of keywords of the name
\* (lowercased; stop words and words of length <= 2 removed) that occur in
\* the lowercased title, divided by the number of keywords; it is 0 when
\* the title is missing or there are no keywords, and lies in [0, 1]. For
\* "Acme Robotics Inc" and the title "Acme Robotics - Home" it is 1.0 and
\* the request is answered at the domain-variation stage.
C19_TitleScore ==
  /\ \A k \in 1..Len(hLive) : IsKeywordShare(hLive[k].score, hName, hLive[k].title)
  /\ \A k \in 1..Len(hGoogle) : IsKeywordShare(hGoogle[k].score, hName, hGoogle[k].title)
  /\ titleScore(hName, Null).num = 0
  /\ AcmeProbedLive =>
       /\ \A k \in 1..Len(hLive) :
            hLive[k].title = <<"A","c","m","e"," ","R","o","b","o","t","i","c","s"," ","-"," ","H","o","m","e">>
              => hLive[k].score.num = 10 * hLive[k].score.den
       /\ hPc = "done" /\ hOut.method = "domain_variation" /\ hCalls = 0

\* The answer to the request of the example, with a second site live
\* whose title holds one keyword of two.
C19_Witness ==
  /\ AcmeProbedLive /\ hPc = "done"
  /\ \E k \in 1..Len(hLive) :
       hLive[k].score.num > 0 /\ hLive[k].score.num < 10 * hLive[k].score.den

\* The title score of the k-th probe of settled, a live one
ProbeScore(settled, k) == titleScore(hName, settled[k].title)

LiveProbes(settled) == {k \in 1..Len(settled) : settled[k].title # Null}

\* The live probe k of settled has the highest title score, and a higher
\* one than every live probe before it
IsFirstBest(settled, k) ==
  /\ k \in LiveProbes(settled)
  /\ \A j \in LiveProbes(settled) :
        /\ ~ScoreGreater(ProbeScore(settled, j), ProbeScore(settled, k))
        /\ j < k => ScoreGreater(ProbeScore(settled, k), ProbeScore(settled, j))

VariationDecides ==
  (hPc = "phase1" /\ hName # <<>>) =>
    IF \E k \in LiveProbes(hResults') : ScoreAtLeast(ProbeScore(hResults', k), 5)
      THEN /\ hPc' = "done" /\ hOut'.method = "domain_variation"
           /\ hCalls' = 0
           /\ \E k \in LiveProbes(hResults') :
                 hOut'.url = hResults'[k].url /\ IsFirstBest(hResults', k)
      ELSE hPc' = "phase2" /\ hOut' = NoResponse

\* C26: in phase 1, when a live variation has a title score of 0.5 or more,
\* the handler answers with method domain_variation the live variation of
\* the highest score, the first generated among equal ones, and calls
\* neither the search nor the model; when none has, phase 2 follows.
C26_VariationDecides ==
  /\ [][VariationDecides]_vars
  /\ [](hOut.method = "domain_variation" => hPc = "done" /\ hCalls = 0)

C26_Witness ==
  /\ hOut.method = "domain_variation"
  /\ \E j, k \in LiveProbes(hResults) :
        /\ j < k /\ hOut.url = hResults[j].url
        /\ ProbeScore(hResults, j) = ProbeScore(hResults, k)

\* The URL and title of the probes of settled that gave a title
LivePairs(settled) ==
  {<<settled[k].url, settled[k].title>> : k \in LiveProbes(settled)}

\* live holds the live probes of settled, each once with its score, and
\* nothing else
OnlyLiveScored(live, settled) ==
  /\ Len(live) = Cardinality(LiveProbes(settled))
  /\ {<<live[k].url, live[k].title>> : k \in 1..Len(live)} = LivePairs(settled)
  /\ \A k \in 1..Len(live) : live[k].score = titleScore(hName, live[k].title)

LiveUrls(settled) == {settled[k].url : k \in LiveProbes(settled)}

NoCallWithoutLive ==
  (hPc = "phase3" /\ LiveProbes(hResults) = {} /\ LiveProbes(hGoogleResults) = {})
     => hPc' = "phase4" /\ hCalls' = hCalls

\* C27: a probe that gives null takes its candidate out: the scored live
\* results hold the probes that gave a title and no others, a match is one
\* of them, the model is shown only them, and with no live probe at all
\* the model is not asked to judge.
C27_NullProbeExcluded ==
  /\ [](OnlyLiveScored(hLive, hResults) /\ OnlyLiveScored(hGoogle, hGoogleResults))
  /\ [](hOut.method = "domain_variation" => hOut.url \in LiveUrls(hResults))
  /\ [](hOut.method = "google_search" => hOut.url \in LiveUrls(hGoogleResults))
  /\ []({Presented(hLive, hGoogle)[k].url : k \in 1..Len(Presented(hLive, hGoogle))}
          \subseteq LiveUrls(hResults) \cup LiveUrls(hGoogleResults))
  /\ [][NoCallWithoutLive]_vars

C27_Witness ==
  /\ hOut.method = "claude_judgment"
  /\ Len(hLive) = 1 /\ Len(hGoogle) = 0
  /\ \E k \in 1..Len(hResults) : hResults[k].url \in Sites /\ hResults[k].title = Null
  /\ \E k \in 1..Len(hGoogleResults) : hGoogleResults[k].title = Null

\* The URLs probed in phase 1: what generateVariations returned
Variations == [k \in 1..Len(hResults) |-> hResults[k].url]

\* The name ends in a dot and one of the endings of dotComMatch
IsDotComName(name) ==
  \E a \in 1..Len(DOTCOM_TLDS) :
    /\ EndsWith(ToLowerCase(name), <<".">> \o DOTCOM_TLDS[a])
    /\ Len(name) >= Len(DOTCOM_TLDS[a]) + 2

\* The base and the ending of a variation https://www.<base>.<tld>
BaseOf(url) == SplitOn(From(url, 13), ".")[1]
TldOf(url) == From(url, 13 + Len(BaseOf(url)) + 1)
TldIndex(url) == CHOOSE a \in 1..Len(TLDS) : TLDS[a] = TldOf(url)

\* The keywords of the name joined: cleanWords.join("")
KeywordsJoined(name) ==
  LET clean(allWords) ==
        FilterSeq(allWords, {k \in 1..Len(allWords) :
                               allWords[k] \notin HARD_STOP /\ Len(allWords[k]) > 1}, 1)
  IN  Join(clean(NonSpaceRuns(PunctToSpace(ToLowerCase(name)), 1)), <<>>)

WellFormedVariations(urls) ==
  /\ Len(urls) <= 15
  /\ \A j, k \in 1..Len(urls) : j # k => urls[j] # urls[k]
  /\ \A k \in 1..Len(urls) :
        /\ StartsWith(urls[k], <<"h","t","t","p","s",":","/","/","w","w","w",".">>)
        /\ BaseOf(urls[k]) # <<>>
        /\ \E a \in 1..Len(TLDS) : TLDS[a] = TldOf(urls[k])
  /\ Len(urls) > 0 => TldIndex(urls[1]) = 1
  /\ \A k \in 2..Len(urls) :
        IF BaseOf(urls[k]) = BaseOf(urls[k - 1])
          THEN TldIndex(urls[k]) = TldIndex(urls[k - 1]) + 1
          ELSE TldIndex(urls[k]) = 1 /\ TldIndex(urls[k - 1]) = Len(TLDS)

FullBaseFirst(name, urls) ==
  Len(urls) > 0 =>
    /\ BaseOf(urls[1]) = KeywordsJoined(name)
    /\ \A k \in 2..Len(urls) :
          \/ BaseOf(urls[k]) = BaseOf(urls[1])
          \/ Len(BaseOf(urls[k])) < Len(BaseOf(urls[1]))

\* C28: for a name that dotComMatch does not match, generateVariations
\* returns at most 15 different URLs https://www.<base>.<tld>, the endings
\* of each base in the order of TLDS, the base of all the keywords joined
\* first and the shorter bases after it.
C28_VariationOrder ==
  (hPc # "phase1" /\ hName # <<>> /\ ~IsDotComName(hName)) =>
    WellFormedVariations(Variations) /\ FullBaseFirst(hName, Variations)

\* The words of the name joined, stop words included: allWords.join("")
WordsJoined(name) ==
  Join(NonSpaceRuns(PunctToSpace(ToLowerCase(name)), 1), <<>>)

\* The base of all the keywords comes first; a later base is shorter, or
\* is made of the first words of the name
FullBaseFirstAsBuilt(name, urls) ==
  Len(urls) > 0 =>
    /\ KeywordsJoined(name) # <<>> => BaseOf(urls[1]) = KeywordsJoined(name)
    /\ \A k \in 2..Len(urls) :
          \/ BaseOf(urls[k]) = BaseOf(urls[1])
          \/ Len(BaseOf(urls[k])) < Len(BaseOf(urls[1]))
          \/ StartsWith(WordsJoined(name), BaseOf(urls[k]))

\* C28, as the code has it: at most 15 different URLs
\* https://www.<base>.<tld>, the endings of each base in the order of TLDS,
\* the base of all the keywords first; a later base is shorter or is made
\* of the first words of the name, stop words included.
C28_VariationOrderAsBuilt ==
  (hPc # "phase1" /\ hName # <<>> /\ ~IsDotComName(hName)) =>
    WellFormedVariations(Variations) /\ FullBaseFirstAsBuilt(hName, Variations)

C28_Witness ==
  /\ hPc # "phase1" /\ ~IsDotComName(hName)
  /\ Len(Variations) = 15
  /\ BaseOf(Variations[1]) = KeywordsJoined(hName)
  /\ Len(BaseOf(Variations[13])) > Len(BaseOf(Variations[1]))

\* The initials of the keywords of the name
InitialsOf(name) ==
  LET clean(allWords) ==
        FilterSeq(allWords, {k \in 1..Len(allWords) :
                               allWords[k] \notin HARD_STOP /\ Len(allWords[k]) > 1}, 1)
      heads(ws) == [k \in 1..Len(ws) |-> ws[k][1]]
  IN  heads(clean(NonSpaceRuns(PunctToSpace(ToLowerCase(name)), 1)))

\* The endings the second base is given
SecondBaseTlds == << <<"c","o","m">>, <<"n","e","t">>, <<"i","o">> >>

\* urls is the twelve endings of a first base, followed or not by com, net
\* and io of a second base
TwoBasesAtMost(urls) ==
  /\ Cardinality({BaseOf(urls[k]) : k \in 1..Len(urls)}) <= 2
  /\ Len(urls) \in {0, Len(TLDS), Len(TLDS) + Len(SecondBaseTlds)}
  /\ \A k \in 1..Len(urls) :
       IF k <= Len(TLDS)
         THEN urls[k] = <<"h","t","t","p","s",":","/","/","w","w","w",".">> \o BaseOf(urls[1]) \o <<".">> \o TLDS[k]
         ELSE /\ BaseOf(urls[k]) # BaseOf(urls[1])
              /\ urls[k] = <<"h","t","t","p","s",":","/","/","w","w","w",".">> \o BaseOf(urls[Len(TLDS) + 1]) \o <<".">>
                             \o SecondBaseTlds[k - Len(TLDS)]

\* C39: for a name that dotComMatch does not match, the output of
\* generateVariations holds URLs of at most two bases: the 12 endings of
\* the first base, then com, net and io of the second; no third base,
\* the initials for example, appears.
C39_TwoBasesAtMost ==
  (hPc # "phase1" /\ ~IsDotComName(hName)) => TwoBasesAtMost(Variations)

\* The variations of a name whose initials are a third base were built:
\* fifteen URLs, none of them on the initials.
C39_Witness ==
  /\ hPc # "phase1" /\ ~IsDotComName(hName)
  /\ Len(Variations) = 15
  /\ Len(InitialsOf(hName)) \in 2..5
  /\ \A k \in 1..15 : BaseOf(Variations[k]) # InitialsOf(hName)

\* ------------------------------------------------------------------------
\* Properties of the batch runner
\* ------------------------------------------------------------------------
RunningBatches == {b \in 1..MaxBatches : batches[b].pc = "running"}

Terminal(c) == companies[c].status \in {"found", "notAvailable"}

\* The companies the workers of batch bt are resolving
InFlightOf(bt) ==
  {bt.targets[bt.workers[w].cur] :
     w \in {v \in 1..Len(bt.workers) : bt.workers[v].pc = "busy"}}

\* The companies some worker is resolving
InFlight == UNION {InFlightOf(batches[b]) : b \in RunningBatches}

Searching == {c \in 1..Len(companies) : companies[c].status = "searching"}

\* C9: at every moment at most CONCURRENCY companies have a resolution in
\* flight, and at most CONCURRENCY companies have the status searching,
\* whatever the sequence of Start, Stop and Retry Not Available.
C9_BoundedInFlight ==
  /\ Cardinality(InFlight) <= CONCURRENCY(bVer)
  /\ Cardinality(Searching) <= CONCURRENCY(bVer)

\* Batch b is under way before and after the step
StaysRunning(b) == batches[b].pc = "running" /\ batches'[b].pc = "running"

\* The positions of the targets the workers of batch b take in the step
PickedNow(b) ==
  IF batches'[b].pc # "running" THEN {}
  ELSE IF batches[b].pc = "running" THEN (batches[b].idx + 1)..batches'[b].idx
  ELSE 1..batches'[b].idx

\* The workers of batch b whose resolution settles in the step
SettledNow(b) ==
  IF batches[b].pc # "running" THEN {}
  ELSE {w \in 1..Len(batches[b].workers) :
          /\ batches[b].workers[w].pc = "busy"
          /\ \/ batches'[b].pc # "running"
             \/ batches'[b].workers[w] # batches[b].workers[w]}

\* The step completes a batch that was stopped, or one that was not
StoppedCompletes == bLast.pc = "running" /\ bLast.stopSeen
UnstoppedCompletes == bLast.pc = "running" /\ ~bLast.stopSeen

NoPickAfterStop ==
  \A b \in 1..MaxBatches :
    (StaysRunning(b) /\ batches[b].stopSeen) => batches'[b].idx <= batches[b].idx

InFlightEndsTerminal ==
  \A b \in 1..MaxBatches :
    (batches[b].pc = "running" /\ batches[b].stopSeen) =>
      \A w \in SettledNow(b) :
        companies'[batches[b].targets[batches[b].workers[w].cur]].status
          \in {"found", "notAvailable"}

UnstartedStayPending ==
  StoppedCompletes =>
    \A p \in (bLast.idx + 1)..Len(bLast.targets) :
      companies[bLast.targets[p]].status = "pending"

ProcessedWithinSubmitted ==
  StoppedCompletes => stats.found + stats.notAvailable <= Len(bLast.targets)

\* C7: once Stop is clicked during a batch, no worker of the batch takes
\* another company; the resolutions in flight settle with the status found
\* or notAvailable; the targets not taken are pending when the batch ends;
\* and the companies counted as processed when the batch ends are no more
\* than the targets submitted.
C7_StopHalts ==
  /\ [][NoPickAfterStop /\ InFlightEndsTerminal]_vars
  /\ [](UnstartedStayPending /\ ProcessedWithinSubmitted)

\* C8: in a batch that is not stopped the workers take only companies that
\* are pending (none is taken twice, a deferred one is taken again only
\* after it was set back to pending), and when the batch ends every target
\* has the status found or notAvailable (none was skipped).
C8_EachTargetOnce ==
  /\ [][\A b \in 1..MaxBatches : \A p \in PickedNow(b) :
          companies[batches'[b].targets[p]].status = "pending"]_vars
  /\ [](UnstoppedCompletes =>
          \A p \in 1..Len(bLast.targets) : Terminal(bLast.targets[p]))

\* C10: when every call to the service has failed, a batch does not end as
\* an ordinary completion (done) that leaves every target Not Available.
C10_OutageSurfaced ==
  (bLast.pc = "running" /\ bOutage) =>
    ~(/\ done
      /\ \A p \in 1..Len(bLast.targets) :
           companies[bLast.targets[p]].status = "notAvailable")

\* A company whose resolution threw is shown as Not Available
FailureRecorded ==
  \A c \in 1..Len(companies) :
    companies[c].searchStep = "Error" =>
      /\ companies[c].status = "notAvailable"
      /\ companies[c].website = NotAvailable

\* The worker whose resolution threw stays in its loop: it is in the delay
\* between two companies and its batch is under way.
FailureKeepsWorker ==
  \A b \in 1..MaxBatches : \A w \in SettledNow(b) :
    companies'[batches[b].targets[batches[b].workers[w].cur]].searchStep = "Error" =>
      /\ batches'[b].pc = "running"
      /\ batches'[b].workers[w].pc = "delay"

\* A worker whose delay is over takes the next target when one is left and
\* Stop is not set
DelayedWorkerGoesOn ==
  \A b \in 1..MaxBatches :
    batches[b].pc = "running" =>
      \A w \in 1..Len(batches[b].workers) :
        (/\ batches[b].workers[w].pc = "delay"
         /\ batches[b].idx < Len(batches[b].targets)
         /\ ~stopRef
         /\ \/ batches'[b].pc # "running"
            \/ batches'[b].workers[w] # batches[b].workers[w]) =>
          /\ batches'[b].pc = "running"
          /\ batches'[b].workers[w] = [pc |-> "busy", cur |-> batches[b].idx + 1]

\* A batch ends only when its targets are all taken or Stop is set
EndsOnlyWhenDone ==
  bLast.pc = "running" => (bLast.idx >= Len(bLast.targets) \/ stopRef)

\* C11: when the resolution of a company throws, the company is recorded as
\* notAvailable with the website "Not Available", the worker stays in its
\* loop and takes the next target after its delay, and the batch ends only
\* when every target was taken or Stop was clicked.
C11_FailureIsLocal ==
  /\ [](FailureRecorded /\ EndsOnlyWhenDone)
  /\ [][FailureKeepsWorker /\ DelayedWorkerGoesOn]_vars

\* A resolution threw and its worker is resolving the next target
C11_Witness ==
  \E b \in 1..MaxBatches :
    /\ batches[b].pc = "running"
    /\ batches[b].workers[1].pc = "busy"
    /\ batches[b].workers[1].cur = 2
    /\ companies[batches[b].targets[1]].searchStep = "Error"
    /\ companies[batches[b].targets[1]].status = "notAvailable"
    /\ companies[batches[b].targets[2]].status = "searching"

\* The companies whose name is empty
Nameless == {c \in 1..Len(companies) : companies[c].name = <<>>}

\* C12: a company whose name is empty never enters the pipeline: no
\* resolution is started for it (it is never searching).
C12_EmptyNameRejected ==
  \A c \in Nameless : companies[c].status # "searching"


\* C17: provided every call returns, a batch under way eventually
\* completes: running becomes false and done becomes true, whatever the
\* calls return, rate-limit responses included.
C17_BatchCompletes == (RunningBatches # {}) ~> (~running /\ done)

\* Worker w of batch b records the result of its resolution in this step
RecordsResult(b, w) ==
  /\ batches[b].pc = "running"
  /\ w \in 1..Len(batches[b].workers)
  /\ batches[b].workers[w].pc = "busy"
  /\ batches'[b].pc = "running"
  /\ batches'[b].workers[w].pc = "delay"

\* The step changes the website, status and step shown of the company at
\* position c and nothing else of the list
ChangesOnly(c) ==
  /\ Len(companies') = Len(companies)
  /\ \A k \in 1..Len(companies) : k # c => companies'[k] = companies[k]
  /\ companies'[c].name = companies[c].name
  /\ companies'[c].id = companies[c].id

\* C30: recording the result of the resolution of one company changes the
\* website, the status and the step of that company only; the records of
\* the other companies stay as they are.
C30_OnlyOwnRecord ==
  [][\A b \in 1..MaxBatches : \A w \in Workers :
       RecordsResult(b, w) =>
         ChangesOnly(batches[b].targets[batches[b].workers[w].cur])]_vars

\* The number of companies whose status is found
FoundCount == Cardinality({k \in 1..Len(companies) : companies[k].status = "found"})

\* C35: at every moment the found counter of stats equals the number of
\* companies whose status is found.
C35_FoundCounterMatches == stats.found = FoundCount

\* The company at position k is found and the step leaves it as it is.
StaysFound(k) ==
  companies[k].status = "found"
    => /\ companies'[k].status = "found"
       /\ companies'[k].website = companies[k].website

\* C36: a company whose status is found is never resolved again: no step
\* of a batch started by Start or by Retry changes its status or its
\* website.
C36_FoundIsFinal == [][\A k \in 1..Len(companies) : StaysFound(k)]_vars

\* C37: when a batch has completed (running false, done true) no company
\* has the status searching.
C37_NoneSearchingWhenDone ==
  (~running /\ done) =>
    \A k \in 1..Len(companies) : companies[k].status # "searching"

\* ------------------------------------------------------------------------
\* Properties of one call of callWithSearch
\* ------------------------------------------------------------------------
\* The positions of the bodies of round 2 among the bodies posted
Round2Posts == {k \in 1..Len(cSent) : Len(cSent[k].messages) = 2}

\* Round 1 returned a block tool_use of the tool web_search.
SearchWasUsed ==
  /\ cGot1
  /\ \E k \in 1..Len(cData1) :
       cData1[k].type = "tool_use" /\ cData1[k].name = "web_search"

\* C22: callWithSearch posts a second round if and only if round 1
\* returned a block tool_use of web_search; the second round is posted
\* after round 1 has returned and holds the prompt followed by the whole
\* content of round 1 as the turn of the assistant; when round 1 did not
\* use the search its text is the answer and nothing more is posted.
C22_SecondRoundIffSearch ==
  /\ Round2Posts # {} <=> SearchWasUsed
  /\ \A k \in Round2Posts :
       /\ \A j \in 1..Len(cSent) : j < k /\ j \notin Round2Posts
            => cSent[j] = Round1Body(cPrompt)
       /\ cSent[k].messages[1] = [role |-> "user", content |-> cPrompt]
       /\ cSent[k].messages[2] = [role |-> "assistant", content |-> cData1]
  /\ (cGot1 /\ ~SearchWasUsed) =>
       /\ cPc = "done"
       /\ cOut = JoinText(cData1, TRUE)
       /\ \A k \in 1..Len(cSent) : cSent[k] = Round1Body(cPrompt)

\* Both rounds were made, the second after a retry of the first, and the
\* answer was returned.
C22_Witness ==
  /\ cPc = "done" /\ SearchWasUsed /\ Round2Posts # {}
  /\ Len(cSent) > 2

\* ------------------------------------------------------------------------
\* Properties of the calls in flight
\* ------------------------------------------------------------------------
CallIssued == enPc # "idle" /\ fPending' \ fPending # {}

ProbesIssued == hPc = "phase1" /\ fPc = "issue" /\ fPc' = "await"

Scored == hPc = "phase1" /\ hPc' # "phase1"

\* C29: in enrichCompany at most one call of searchStep is under way, and a
\* step makes its call only when the call of the step before has returned
\* or thrown; in the handler all the probes of phase 1 are under way
\* together and the scoring starts only when each of them has settled.
C29_SequentialCallsJoinedProbes ==
  /\ [](enPc # "idle" => Cardinality(fPending) <= 1)
  /\ [][CallIssued => fPending = {} /\ fPending' = {enPc}]_vars
  /\ [][ProbesIssued => fPending' = 1..Len(ProbedUrls(hName))]_vars
  /\ [][Scored => /\ fPending = {}
                  /\ \A k \in 1..Len(ProbedUrls(hName)) : fTitles[k] # Pending
                  /\ Len(hResults') = Len(ProbedUrls(hName))]_vars

C29_Witness ==
  /\ fPc = "joined" /\ hOut.method = "domain_variation"
  /\ Len(hResults) = MaxProbes /\ Len(hLive) = 2

\* ------------------------------------------------------------------------
\* Properties of nameSimilarity
\* ------------------------------------------------------------------------

\* the length of the longest common prefix of a and b
CommonPrefix(a, b) ==
  LET n == IF Len(a) < Len(b) THEN Len(a) ELSE Len(b)
  IN  CHOOSE k \in 0..n :
        /\ SubSeq(a, 1, k) = SubSeq(b, 1, k)
        /\ k < n => a[k + 1] # b[k + 1]

\* The keyword begins with the first five characters of the domain (with
\* the whole domain when it has four characters).
SharesDomainPrefix(word, domainName) ==
  /\ Len(domainName) >= 4
  /\ CommonPrefix(word, domainName) >= (IF Len(domainName) < 5 THEN Len(domainName) ELSE 5)

\* The keyword begins with the TLD word, or the TLD word begins with the
\* first three characters of the keyword.
SharesTldPrefix(word, tldWord) ==
  /\ tldWord # <<>>
  /\ \/ CommonPrefix(word, tldWord) >= Len(tldWord)
     \/ CommonPrefix(word, tldWord) >= (IF Len(word) < 3 THEN Len(word) ELSE 3)

\* The award of one keyword, in tenths: the first applicable of the four.
FirstApplicable(word, domainName, tldWord) ==
  CASE Includes(domainName \o tldWord, word) -> 10
    [] SharesDomainPrefix(word, domainName) -> 8
    [] SharesTldPrefix(word, tldWord) -> 7
    [] Len(word) >= 4 /\ Includes(domainName \o tldWord, SubSeq(word, 1, 4)) -> 4
    [] OTHER -> 0

\* the awards of the keywords of a name against a domain
Awards(companyName, domainFull) ==
  [i \in 1..Len(NameWords(companyName)) |->
     FirstApplicable(NameWords(companyName)[i], DomainName(domainFull),
                     TldWord(domainFull))]

Half == [num |-> 5, den |-> 1, ulp |-> 0]

\* C33: nameSimilarity returns a value in [0, 1]: 0.5 when the name has no
\* scorable keyword, otherwise the sum of the keywords' awards divided by
\* their number (which never exceeds 1), where the award of a keyword is
\* the first applicable of 1.0 (it occurs in domain + TLD word), 0.8 (it
\* begins with the head of the domain), 0.7 (it shares its head with the
\* TLD word), 0.4 (its first four characters occur in domain + TLD word)
\* and 0.
C33_SimilarityValue ==
  sPc = "done" =>
    /\ 0 <= sOut.num /\ sOut.num <= 10 * sOut.den
    /\ NameWords(sName) = <<>> => sOut = Half
    /\ NameWords(sName) # <<>> => sOut = ScoreOf(Awards(sName, sDomain))

\* A name of three keywords was scored and its keywords earned different
\* awards, one of them a prefix award.
C33_Witness ==
  /\ sPc = "done"
  /\ Len(NameWords(sName)) = 3
  /\ \E i, j \in 1..3 :
       /\ Awards(sName, sDomain)[i] = 10
       /\ Awards(sName, sDomain)[j] \in {4, 7, 8}
  /\ sOut = ScoreOf(Awards(sName, sDomain))

\* ------------------------------------------------------------------------
\* Properties of one call of fetchWithRetry through the proxy
\* ------------------------------------------------------------------------
\* C40: one call of fetchWithRetry reaches the external service at most
\* (5 + 1) x (5 + 1) = 36 times through the proxy, and it ends by returning
\* an OK response or by throwing, never by returning undefined.
C40_RoundBounded ==
  /\ rReached <= (MAX_RETRIES + 1) * (PROXY_MAX_RETRIES + 1)
  /\ rPc = "done" => rOut \in {"returned", "thrown"}
  /\ rOut = "returned" => Ok(rStatus)

\* Every request of every attempt was answered 429: the external service
\* was reached 36 times and the call threw.
C40_Witness ==
  /\ rPc = "done" /\ rOut = "thrown"
  /\ rReached = (MAX_RETRIES + 1) * (PROXY_MAX_RETRIES + 1)
  /\ rAttempt = MAX_RETRIES /\ rProxyAttempt = PROXY_MAX_RETRIES
====
